---- MODULE Spec2Model ----
\* Verification model of Omochice/toy-socket-chat: the chat Hub
\* (internal/chat), the TCP listener that drives it (internal/transport/tcp)
\* and the wire codec (pkg/protocol).
EXTENDS Integers, Sequences, FiniteSets, TLC

\* ------------------------------------------------------------------ bounds
\* Number of Client objects there are.
NumClients == 3
\* Number of things the peers do in total: connections they open plus frames
\* they send (caps the accept loop and the read counters).
MaxEvents == 4
\* Number of Hub methods a direct caller invokes.
MaxCalls == 5
\* Largest enum value a frame, or a Message's Type, carries.
MaxKind == 3
\* Number of bytes a peer sends after its first four (and after the request
\* headers, if it sends any).
MaxBytes == 2
\* Number of frames a framed connection delivers, the length of the longest
\* payload, and the size of the largest buffer a caller hands to Read.
MaxWsFrames == 2
MaxFrameLen == 3
MaxBuf == 2
\* Capacity of a client's Outgoing channel.  The listener allocates
\* make(chan []byte, 10); the hub never reads the capacity, it only observes
\* "full" through the non-blocking send, so the model runs with a small one.
OutgoingCap == 2

Clients == 1..NumClients

\* Number of connections the UnifiedServer takes, and the number of things
\* their peers do in total (connections opened plus frames sent).
NumPeers == 2
MaxUEvents == 3

Peers == 1..NumPeers

\* Number of Hub.Stop calls.
MaxStops == 1

\* The hub with concurrent senders: members registered, Broadcast calls.
NumMembers == 4
MaxBroadcasts == 2

\* Sessions that are all open already: frames their peers send.
MaxQueueReads == 4

\* The client library: connections a client dials, and the calls the
\* application makes plus the frames the server sends, in total.
MaxDials == 2
MaxClientEvents == 4

\* make(chan protocol.Message, 10)
MessagesCap == 10

\* ------------------------------------------------------- pkg/protocol codec
MessageTypeText == 0
MessageTypeJoin == 1
MessageTypeLeave == 2

\* pb.MessageType enum values (proto/message.proto).
PbText == 0
PbJoin == 1
PbLeave == 2

\* A frame is the bytes one Conn.Read returns.  Bytes that parse carry the
\* three protobuf fields; wellformed = FALSE stands for bytes proto.Unmarshal
\* rejects.
Frame(k, s, c) == [wellformed |-> TRUE, kind |-> k, sender |-> s, content |-> c]
Malformed == [wellformed |-> FALSE, kind |-> 0, sender |-> "", content |-> ""]

\* Mutant: every kind is marshalled as TEXT.
messageTypeToProtoText(mt) == PbText

\* Mutant: the enum value is cast, not mapped.
messageTypeFromProtoCast(pbType) == pbType

\* messageTypeToProto: the switch with its default arm.
messageTypeToProto(mt) ==
  CASE mt = MessageTypeText -> PbText
    [] mt = MessageTypeJoin -> PbJoin
    [] mt = MessageTypeLeave -> PbLeave
    [] OTHER -> PbText

\* messageTypeFromProto: the switch with its default arm.
messageTypeFromProto(pbType) ==
  CASE pbType = PbText -> MessageTypeText
    [] pbType = PbJoin -> MessageTypeJoin
    [] pbType = PbLeave -> MessageTypeLeave
    [] OTHER -> MessageTypeText

\* Message.Decode: proto.Unmarshal, then fromProto.
Decode(data) ==
  IF data.wellformed
    THEN [err |-> FALSE,
          msg |-> [Type |-> messageTypeFromProto(data.kind),
                   Sender |-> data.sender, Content |-> data.content]]
    ELSE [err |-> TRUE, msg |-> [Type |-> MessageTypeText, Sender |-> "", Content |-> ""]]

\* Message.Encode: toProto, then proto.Marshal.
Encode(m) == Frame(messageTypeToProto(m.Type), m.Sender, m.Content)

\* The frames a chat peer may put on the wire: the three kinds, a JOIN under
\* a second name, a frame with an enum value the server does not know, and
\* bytes that do not parse.
InFrames ==
  { Frame(PbText, "x", "hello"), Frame(PbJoin, "x", ""), Frame(PbJoin, "y", ""),
    Frame(PbLeave, "x", ""), Frame(3, "x", "hello"), Malformed }

\* ------------------------------------------------------------------- state
VARIABLES
  clients,    \* Hub.clients: the set of registered clients
  Username,   \* Client.Username
  Outgoing,   \* Client.Outgoing: the buffered channel's content, oldest first
  chanClosed, \* Client.Outgoing has been closed
  connClosed, \* Client.Conn has been closed by the server
  accepted,   \* number of connections the accept loop has taken
  rpc,        \* position of each client's read task (Server.handleClient)
  wpc,        \* position of each client's write task (Server.writeLoop)
  bc,         \* the Broadcast call a read task is inside of
  nread,      \* frames each read loop has decoded or rejected so far
  lastw,      \* lastw[r][s]: index of the last frame of s written to r's conn
  badSeen,    \* the read loop of the client has rejected a frame
  call,       \* the last Hub method a direct caller (a test) has run
  between,    \* clients whose last completed membership call is Register
  quit,       \* Server.quit has been closed
  listener,   \* Server.listener: none (nil), open, closed
  start,      \* position of the Server.Start call
  stop,       \* position of the Server.Stop call
  stops,      \* number of Hub.Stop calls that have returned
  closeCalls, \* number of Close calls each client's Conn has had
  codec,      \* a Message on its way through Encode and Decode
  mux,        \* a connection on its way through the multiplexed port
  ws,         \* a framed connection read through its byte-stream adapter
  uclients,   \* UnifiedServer.clients: the set of registered clients
  utype,      \* UnifiedClient.clientType ("" until the client is built)
  uout,       \* UnifiedClient.outgoing: the channel's content, oldest first
  uoutClosed, \* UnifiedClient.outgoing has been closed
  uconn,      \* the connection as the server holds it: none, open, closed
  upc,        \* position of each connection's handler and read loop
  uwpc,       \* position of each client's writer goroutine
  uwdone,     \* writerDone has been closed
  unread,     \* frames each read loop has taken off its connection
  uaccepted,  \* number of connections acceptConnections has taken
  upeeked,    \* the reader holds the bytes Peek has pulled, still unread
  ustop,      \* position of the UnifiedServer.Stop call
  uacc,       \* position of the acceptConnections goroutine
  cl          \* a client of the client library and its goroutines

\* The state of the UnifiedServer and its clients.
uniVars == <<uclients, utype, uout, uoutClosed, uconn, upc, uwpc, uwdone,
             unread, uaccepted, upeeked, ustop, uacc>>

vars == <<clients, Username, Outgoing, chanClosed, connClosed, accepted, rpc,
          wpc, bc, nread, lastw, badSeen, call, between, quit, listener, start,
          stop, stops, closeCalls, codec, mux, ws, cl, uniVars>>

\* The state of the parts no method of the Hub and no task of a client
\* touches.
elsewhere == <<quit, listener, stop, stops, codec, mux, ws, cl, uniVars>>

\* The state of the Hub, its clients, their tasks and their listener.
hubVars == <<clients, Username, Outgoing, chanClosed, connClosed, accepted, rpc,
             wpc, bc, nread, lastw, badSeen, call, between, quit, listener,
             start, stop, stops, closeCalls>>

NoBroadcast == [active |-> FALSE, data |-> Malformed, seq |-> 0, todo |-> {}]
\* Nothing is in the codec, on the multiplexed port or in the adapter.
CodecIdle == [pc |-> "idle"]
MuxIdle == [pc |-> "idle"]
WsIdle == [pc |-> "idle"]
ClientIdle == [pc |-> "none"]

NoCall == [op |-> "none", client |-> 0, was |-> FALSE, before |-> 0, n |-> 0]

TotalRead == LET RECURSIVE Sum(_)
                 Sum(n) == IF n = 0 THEN 0 ELSE nread[n] + Sum(n - 1)
             IN Sum(NumClients)

\* NewUnifiedServer: no client, no connection, no task.
InitUni ==
  /\ uclients = {}
  /\ utype = [c \in Peers |-> ""]
  /\ uout = [c \in Peers |-> <<>>]
  /\ uoutClosed = [c \in Peers |-> FALSE]
  /\ uconn = [c \in Peers |-> "none"]
  /\ upc = [c \in Peers |-> "idle"]
  /\ uwpc = [c \in Peers |-> "idle"]
  /\ uwdone = [c \in Peers |-> FALSE]
  /\ unread = [c \in Peers |-> 0]
  /\ uaccepted = 0
  /\ upeeked = [c \in Peers |-> FALSE]
  /\ ustop = "idle"
  /\ uacc = "accept"

\* ------------------------------------------------------------ Hub (chat)
\* NewHub, and the fields of a Client before the listener has built it.
InitHub ==
  /\ clients = {}
  /\ Username = [c \in Clients |-> ""]
  /\ Outgoing = [c \in Clients |-> <<>>]
  /\ chanClosed = [c \in Clients |-> FALSE]
  /\ connClosed = [c \in Clients |-> FALSE]
  /\ accepted = 0
  /\ rpc = [c \in Clients |-> "idle"]
  /\ wpc = [c \in Clients |-> "idle"]
  /\ bc = [c \in Clients |-> NoBroadcast]
  /\ nread = [c \in Clients |-> 0]
  /\ lastw = [r \in Clients |-> [s \in Clients |-> 0]]
  /\ badSeen = [c \in Clients |-> FALSE]
  /\ call = NoCall
  /\ between = {}
  /\ stops = 0
  /\ closeCalls = [c \in Clients |-> 0]

\* Server.Start has bound its address and is in its accept loop.
Running ==
  /\ quit = FALSE
  /\ listener = "open"
  /\ start = "accept"
  /\ stop = "idle"

\* The listener's program: nothing is going on in the other parts.
Init ==
  /\ InitHub
  /\ Running
  /\ codec = CodecIdle
  /\ mux = MuxIdle
  /\ ws = WsIdle
  /\ InitUni
  /\ cl = ClientIdle

\* Mutant: Register starts a new map holding only the client.
RegisterReplace(cs, c) == {c}

\* Mutant: the assignment into the map is lost.
RegisterNothing(cs, c) == cs

\* Hub.Register: h.clients[client] = true.
Register(cs, c) == cs \cup {c}

\* Mutant: Unregister deletes nothing.
UnregisterNothing(cs, c) == cs

\* Mutant: the whole map is cleared.
UnregisterAll(cs, c) == {}

\* Hub.Unregister: delete(h.clients, client).
Unregister(cs, c) == cs \ {c}

\* Hub.ClientCount: len(h.clients).
ClientCount == Cardinality(clients)

\* Mutant: the `client != sender` test is missing.
RecipientsAll(cs, sender) == cs

\* The members Broadcast's loop sends to: all but the sender.
Recipients(cs, sender) == cs \ {sender}

\* Mutant: the channel has no capacity limit.
EnqueueUnbounded(q, e) == Append(q, e)

\* Mutant: the payload is put at the head of the queue.
EnqueueFront(q, e) == IF Len(q) < OutgoingCap THEN <<e>> \o q ELSE q

\* select { case client.Outgoing <- data: default: }
Enqueue(q, e) == IF Len(q) < OutgoingCap THEN Append(q, e) ELSE q

\* Mutant: a plain `client.Outgoing <- data`, which waits for room.
SendReadyBlocking(q) == Len(q) < OutgoingCap

\* Whether Broadcast's send to a channel can be taken now: the select has a
\* default case, so it is never made to wait.
SendReady(q) == TRUE

\* Mutant: Lock does not wait for the readers.
NoReaderIgnored == TRUE

\* The write lock (Register, Unregister) is free of readers: no Broadcast
\* holds the read lock.
NoReader == \A c \in Clients : ~bc[c].active

\* The payload as it sits in a channel.  from and seq tag it with the call
\* that produced it; the channel itself carries only data.
Entry(data, sender, seq) == [data |-> data, from |-> sender, seq |-> seq]

\* Hub.Broadcast, one iteration of `for client := range h.clients` with todo
\* the members still to visit (Go ranges over a map in an arbitrary order):
\* the non-blocking send, and after the last member RUnlock and return.
BroadcastTo(c, e, todo) ==
  \E r \in todo :
    /\ SendReady(Outgoing[r])
    /\ Outgoing' = [Outgoing EXCEPT ![r] = Enqueue(@, e)]
    /\ bc' = [bc EXCEPT ![c] = IF todo = {r}
                                 THEN NoBroadcast
                                 ELSE [active |-> TRUE, data |-> e.data,
                                       seq |-> e.seq, todo |-> todo \ {r}]]

\* Hub.Broadcast, entry: RLock and the first iteration of the loop.  With no
\* other member the loop body never runs and the call returns at once.
BroadcastBegin(c, data, seq) ==
  LET todo == Recipients(clients, c) IN
  IF todo = {}
    THEN UNCHANGED <<bc, Outgoing>>
    ELSE BroadcastTo(c, Entry(data, c, seq), todo)

\* Hub.Broadcast, a later iteration of the loop.
BroadcastStep(c) ==
  /\ bc[c].active
  /\ BroadcastTo(c, Entry(bc[c].data, c, bc[c].seq), bc[c].todo)
  /\ UNCHANGED <<clients, Username, chanClosed, connClosed, accepted, rpc, wpc,
                 nread, lastw, badSeen, call, between, start,
                 closeCalls, elsewhere>>

\* Mutant: the JOIN case does not assign the username.
UsernameKeep(old, msg) == old

\* The username HandleClient leaves in the client after a decoded message.
UsernameAfter(old, msg) == IF msg.Type = MessageTypeJoin THEN msg.Sender ELSE old

\* Mutant: the decoded message is encoded again and that is broadcast.
PayloadReencoded(data, msg) == Encode(msg)

\* The bytes HandleClient hands to Broadcast for a frame it has decoded.
Payload(data, msg) == data

\* Mutant: the LEAVE case does not return.
AfterMessageContinue(msg) == "read"

\* Where the loop of HandleClient goes after the switch: LEAVE returns.
AfterMessage(msg) == IF msg.Type = MessageTypeLeave THEN "return" ELSE "read"

\* Mutant: a decode error ends the loop.
AfterDecodeErrorReturn == "return"

\* Where the loop goes when Decode fails: log, continue.
AfterDecodeError == "read"

\* Hub.HandleClient, one iteration of the loop in which Conn.Read returns the
\* frame data: Decode, the switch on msg.Type, and the entry into Broadcast.
\* The task is back at Conn.Read (or at its return) once Broadcast is over.
HandleFrame(c, data) ==
  /\ rpc[c] = "read"
  /\ ~bc[c].active
  /\ nread' = [nread EXCEPT ![c] = @ + 1]
  /\ LET r == Decode(data) IN
       IF r.err
         THEN /\ badSeen' = [badSeen EXCEPT ![c] = TRUE]
              /\ rpc' = [rpc EXCEPT ![c] = AfterDecodeError]
              /\ UNCHANGED <<Username, bc, Outgoing>>
         ELSE /\ badSeen' = badSeen
              /\ Username' = [Username EXCEPT ![c] = UsernameAfter(@, r.msg)]
              /\ IF r.msg.Type \in {MessageTypeJoin, MessageTypeLeave, MessageTypeText}
                   THEN /\ BroadcastBegin(c, Payload(data, r.msg), nread[c] + 1)
                        /\ rpc' = [rpc EXCEPT ![c] = AfterMessage(r.msg)]
                   ELSE UNCHANGED <<rpc, bc, Outgoing>>
  /\ UNCHANGED <<clients, chanClosed, connClosed, accepted, wpc, lastw, call,
                 between, start, closeCalls, elsewhere>>

\* The iteration, for as long as the peers have events left to cause.
ReadFrameOf(c, data) ==
  /\ accepted + TotalRead < MaxEvents
  /\ HandleFrame(c, data)

\* Conn.Read hands the loop whatever frame the peer has sent.
ReadFrame(c) == \E data \in InFrames : ReadFrameOf(c, data)

\* Mutant: Close flips a flag instead of setting it.
CloseToggle(closed) == ~closed

\* Conn.Close on a connection that is open (closed = FALSE) or closed
\* already: the socket is closed afterwards; on a closed one the call only
\* returns the error of net.Conn.Close.
Close(closed) == TRUE

\* The return of a read task: Hub.HandleClient's deferred function
\* (Unregister(client), which needs the write lock, then Conn.Close()),
\* followed by Server.handleClient's deferred close(client.Outgoing) and
\* wg.Done.
Cleanup(c) ==
  /\ NoReader
  /\ clients' = Unregister(clients, c)
  /\ connClosed' = [connClosed EXCEPT ![c] = Close(@)]
  /\ closeCalls' = [closeCalls EXCEPT ![c] = @ + 1]
  /\ chanClosed' = [chanClosed EXCEPT ![c] = TRUE]
  /\ rpc' = [rpc EXCEPT ![c] = "done"]
  /\ between' = between \ {c}
  /\ UNCHANGED <<Username, Outgoing, accepted, wpc, bc, nread, lastw, badSeen,
                 call, start, elsewhere>>

\* Hub.HandleClient, the iteration in which Conn.Read returns an error or
\* io.EOF: return, which runs the deferred functions.
ReadError(c) ==
  /\ rpc[c] = "read"
  /\ Cleanup(c)

\* Hub.HandleClient, the return after a LEAVE has been broadcast.
HandleClientReturn(c) ==
  /\ rpc[c] = "return"
  /\ Cleanup(c)

\* -------------------------------------------- transport/tcp listener
\* Mutant: Start's select never takes the quit case.
AfterSelectBlind(q) == "accept"

\* Where Server.Start is after the select at the top of its loop: it returns
\* nil when quit is closed and calls listener.Accept when not.
AfterSelect(q) == IF q THEN "returned" ELSE "accept"

\* Server.Start, one turn of the accept loop: build the client, Register it,
\* start its two tasks.
Accept ==
  /\ start = "accept"
  /\ listener = "open"
  /\ accepted < NumClients
  /\ accepted + TotalRead < MaxEvents
  /\ NoReader
  /\ LET c == accepted + 1 IN
       /\ accepted' = c
       /\ clients' = Register(clients, c)
       /\ rpc' = [rpc EXCEPT ![c] = "read"]
       /\ wpc' = [wpc EXCEPT ![c] = "run"]
       /\ between' = between \cup {c}
  /\ start' = AfterSelect(quit)
  /\ UNCHANGED <<Username, Outgoing, chanClosed, connClosed, bc, nread, lastw,
                 badSeen, call, closeCalls, elsewhere>>

\* The item `range client.Outgoing` yields next.
NextItem(q) == Head(q)

\* What a write error does to the write task and, through it, to the client:
\* writeLoop logs and returns.
WriteFailed(c) ==
  /\ wpc' = [wpc EXCEPT ![c] = "failed"]
  /\ UNCHANGED <<clients, connClosed, lastw>>

\* Server.writeLoop, one iteration: take the next payload off the channel and
\* Conn.Write it.  A write on a connection the server has closed fails; one
\* on an open connection fails when the peer is gone.
WriteLoop(c) ==
  /\ wpc[c] = "run"
  /\ Outgoing[c] # <<>>
  /\ LET e == NextItem(Outgoing[c]) IN
       /\ Outgoing' = [Outgoing EXCEPT ![c] = Tail(@)]
       /\ \/ /\ ~connClosed[c]
             /\ lastw' = [lastw EXCEPT ![c][e.from] = e.seq]
             /\ UNCHANGED <<clients, connClosed, wpc>>
          \/ WriteFailed(c)
  /\ UNCHANGED <<Username, chanClosed, accepted, rpc, bc, nread, badSeen, call,
                 between, start, closeCalls, elsewhere>>

\* Server.writeLoop: the range ends once the channel is closed and drained.
WriteLoopExit(c) ==
  /\ wpc[c] = "run"
  /\ Outgoing[c] = <<>>
  /\ chanClosed[c]
  /\ wpc' = [wpc EXCEPT ![c] = "done"]
  /\ UNCHANGED <<clients, Username, Outgoing, chanClosed, connClosed, accepted,
                 rpc, bc, nread, lastw, badSeen, call, between, start,
                 closeCalls, elsewhere>>

\* ------------------------------------------ the Hub called directly
\* hub_test.go drives the Hub without a listener: it builds Clients, calls
\* Register, Unregister and Broadcast on them and receives from Outgoing.
\* call records the method that returned last (for Broadcast: was entered
\* last), the membership of its client and ClientCount() before it.
Called(op, c) ==
  [op |-> op, client |-> c, was |-> c \in clients, before |-> ClientCount,
   n |-> call.n + 1]

\* The payload the tests broadcast.
TestPayload == Frame(PbText, "x", "hello")

\* hub.Register(client)
HubRegister(c) ==
  /\ call.n < MaxCalls
  /\ NoReader
  /\ clients' = Register(clients, c)
  /\ call' = Called("Register", c)
  /\ between' = between \cup {c}
  /\ UNCHANGED <<Username, Outgoing, chanClosed, connClosed, accepted, rpc,
                 wpc, bc, nread, lastw, badSeen, start, closeCalls, elsewhere>>

\* hub.Unregister(client)
HubUnregister(c) ==
  /\ call.n < MaxCalls
  /\ NoReader
  /\ clients' = Unregister(clients, c)
  /\ call' = Called("Unregister", c)
  /\ between' = between \ {c}
  /\ UNCHANGED <<Username, Outgoing, chanClosed, connClosed, accepted, rpc,
                 wpc, bc, nread, lastw, badSeen, start, closeCalls, elsewhere>>

\* hub.Broadcast(data, sender), entered by a task of its own.
HubBroadcast(c) ==
  /\ call.n < MaxCalls
  /\ ~bc[c].active
  /\ BroadcastBegin(c, TestPayload, call.n + 1)
  /\ call' = Called("Broadcast", c)
  /\ UNCHANGED <<clients, Username, chanClosed, connClosed, accepted, rpc, wpc,
                 nread, lastw, badSeen, between, start, closeCalls, elsewhere>>

\* <-client.Outgoing
HubReceive(c) ==
  /\ Outgoing[c] # <<>>
  /\ Outgoing' = [Outgoing EXCEPT ![c] = Tail(@)]
  /\ UNCHANGED <<clients, Username, chanClosed, connClosed, accepted, rpc, wpc,
                 bc, nread, lastw, badSeen, call, between, start,
                 closeCalls, elsewhere>>

NextHub ==
  \/ \E c \in Clients : HubRegister(c)
  \/ \E c \in Clients : HubUnregister(c)
  \/ \E c \in Clients : HubBroadcast(c)
  \/ \E c \in Clients : BroadcastStep(c)
  \/ \E c \in Clients : HubReceive(c)

SpecHub == Init /\ [][NextHub]_vars

Next ==
  \/ Accept
  \/ \E c \in Clients : ReadFrame(c)
  \/ \E c \in Clients : ReadError(c)
  \/ \E c \in Clients : BroadcastStep(c)
  \/ \E c \in Clients : HandleClientReturn(c)
  \/ \E c \in Clients : WriteLoop(c)
  \/ \E c \in Clients : WriteLoopExit(c)

Spec == Init /\ [][Next]_vars

\* ------------------------------- the listener's Start and Stop, Hub.Stop
\* Server.Start, up to its loop: net.Listen, which fails when the address
\* cannot be bound (Start returns the error), s.listener = listener, and the
\* first select.
StartListen ==
  /\ start = "idle"
  /\ \/ /\ start' = "failed"
        /\ UNCHANGED listener
     \/ /\ listener' = "open"
        /\ start' = AfterSelect(quit)
  /\ UNCHANGED <<clients, Username, Outgoing, chanClosed, connClosed, accepted,
                 rpc, wpc, bc, nread, lastw, badSeen, call, between, quit, stop,
                 stops, closeCalls, codec, mux, ws, cl, uniVars>>

\* Server.Start when listener.Accept returns an error: the listener has been
\* closed, which Stop does after close(s.quit), so the inner select returns
\* nil.
AcceptFails ==
  /\ start = "accept"
  /\ listener = "closed"
  /\ start' = AfterSelect(quit)
  /\ UNCHANGED <<clients, Username, Outgoing, chanClosed, connClosed, accepted,
                 rpc, wpc, bc, nread, lastw, badSeen, call, between, quit,
                 listener, stop, stops, closeCalls, codec, mux, ws, cl, uniVars>>

\* Server.Stop: close(s.quit).
ServerStopQuit ==
  /\ stop = "idle"
  /\ quit' = TRUE
  /\ stop' = "listener"
  /\ UNCHANGED <<clients, Username, Outgoing, chanClosed, connClosed, accepted,
                 rpc, wpc, bc, nread, lastw, badSeen, call, between, listener,
                 start, stops, closeCalls, codec, mux, ws, cl, uniVars>>

\* Server.Stop: if s.listener != nil { s.listener.Close() }.
ServerStopListener ==
  /\ stop = "listener"
  /\ listener' = IF listener = "none" THEN "none" ELSE "closed"
  /\ stop' = "wait"
  /\ UNCHANGED <<clients, Username, Outgoing, chanClosed, connClosed, accepted,
                 rpc, wpc, bc, nread, lastw, badSeen, call, between, quit,
                 start, stops, closeCalls, codec, mux, ws, cl, uniVars>>

\* The WaitGroup's counter is zero: every handleClient and every writeLoop
\* that was started has run its wg.Done.
WaitGroupZero ==
  \A c \in Clients : rpc[c] \in {"idle", "done"} /\ wpc[c] \in {"idle", "done", "failed"}

\* Server.Stop: s.wg.Wait() returns, and Stop with it.
ServerStopWait ==
  /\ stop = "wait"
  /\ WaitGroupZero
  /\ stop' = "returned"
  /\ UNCHANGED <<clients, Username, Outgoing, chanClosed, connClosed, accepted,
                 rpc, wpc, bc, nread, lastw, badSeen, call, between, quit,
                 listener, start, stops, closeCalls, codec, mux, ws, cl, uniVars>>

\* Mutant: Stop closes the connections and leaves the members in the set.
StoppedKeeps(cs) == cs

\* The membership set Hub.Stop leaves behind.
Stopped(cs) == {}

\* Hub.Stop (the method is not part of the sources at hand; hub_test.go
\* calls it): under the write lock, close the connection of every member and
\* empty the membership set.
HubStop ==
  /\ stops < MaxStops
  /\ NoReader
  /\ connClosed' = [c \in Clients |->
                      IF c \in clients THEN Close(connClosed[c]) ELSE connClosed[c]]
  /\ closeCalls' = [c \in Clients |->
                      IF c \in clients THEN closeCalls[c] + 1 ELSE closeCalls[c]]
  /\ clients' = Stopped(clients)
  /\ stops' = stops + 1
  /\ UNCHANGED <<Username, Outgoing, chanClosed, accepted, rpc, wpc, bc, nread,
                 lastw, badSeen, call, between, quit, listener, start, stop,
                 codec, mux, ws, cl, uniVars>>

\* NewHub and tcp.New: Start has not been called yet.
InitStop ==
  /\ InitHub
  /\ quit = FALSE
  /\ listener = "none"
  /\ start = "idle"
  /\ stop = "idle"
  /\ codec = CodecIdle
  /\ mux = MuxIdle
  /\ ws = WsIdle
  /\ InitUni
  /\ cl = ClientIdle

\* The listener from Start to Stop with peers that connect and, at some
\* time or never, close their connection, and send nothing in between.
NextStop ==
  \/ Accept
  \/ \E c \in Clients : ReadError(c)
  \/ \E c \in Clients : WriteLoopExit(c)
  \/ StartListen
  \/ AcceptFails
  \/ ServerStopQuit
  \/ ServerStopListener
  \/ ServerStopWait
  \/ HubStop

SpecStop == InitStop /\ [][NextStop]_vars

\* ------------------------- the accept loop's body, statement by statement
\* Server.Start, listener.Accept returns a connection: the loop goes on to
\* build the client.  (Accept above takes the whole body of the loop as one
\* step; here Stop may run between Accept's return and Register.)
AcceptReturns ==
  /\ start = "accept"
  /\ listener = "open"
  /\ accepted < NumClients
  /\ accepted' = accepted + 1
  /\ start' = "register"
  /\ UNCHANGED <<clients, Username, Outgoing, chanClosed, connClosed, rpc, wpc,
                 bc, nread, lastw, badSeen, call, between, closeCalls,
                 elsewhere>>

\* Server.Start, the rest of the loop's body for the connection Accept has
\* returned: s.hub.Register(client), s.wg.Add(2), go s.handleClient(client),
\* go s.writeLoop(client), and the select at the top of the loop.
RegisterAccepted ==
  /\ start = "register"
  /\ NoReader
  /\ LET c == accepted IN
       /\ clients' = Register(clients, c)
       /\ rpc' = [rpc EXCEPT ![c] = "read"]
       /\ wpc' = [wpc EXCEPT ![c] = "run"]
       /\ between' = between \cup {c}
  /\ start' = AfterSelect(quit)
  /\ UNCHANGED <<Username, Outgoing, chanClosed, connClosed, accepted, bc,
                 nread, lastw, badSeen, call, closeCalls, elsewhere>>

\* The listener from Start's loop to Stop, with peers that connect and, at
\* some time or never, close their connection.
NextAccept ==
  \/ AcceptReturns
  \/ RegisterAccepted
  \/ \E c \in Clients : ReadError(c)
  \/ \E c \in Clients : WriteLoopExit(c)
  \/ AcceptFails
  \/ ServerStopQuit
  \/ ServerStopListener
  \/ ServerStopWait

SpecAccept == Init /\ [][NextAccept]_vars

\* ------------------------------------------------ pkg/protocol on its own
\* The Message values a caller may build (MessageType is an int, so a value
\* outside the three constants can be stored) and the strings they carry.
Names == {"", "x", "y"}
Texts == {"", "hello", "bye"}
MessageTypes == 0..MaxKind
Messages == [Type : MessageTypes, Sender : Names, Content : Texts]

\* The Message values with one of the three defined kinds.
ValidMessages == {m \in Messages :
                   m.Type \in {MessageTypeText, MessageTypeJoin, MessageTypeLeave}}

\* What a peer may put on the wire: a marshalled pb.Message with any enum
\* value, or bytes that do not unmarshal.
WireFrames == {Frame(k, n, t) : k \in 0..MaxKind, n \in Names, t \in Texts}
                \cup {Malformed}

\* Either a Message about to be encoded or a frame that has come in.
InitCodec ==
  /\ InitHub
  /\ Running
  /\ mux = MuxIdle
  /\ ws = WsIdle
  /\ InitUni
  /\ cl = ClientIdle
  /\ \/ \E m \in Messages :
          codec = [pc |-> "message", m |-> m, data |-> Malformed,
                   out |-> Decode(Malformed)]
     \/ \E d \in WireFrames :
          codec = [pc |-> "frame", m |-> Decode(Malformed).msg, data |-> d,
                   out |-> Decode(Malformed)]

\* data, err := m.Encode()
MessageEncode ==
  /\ codec.pc = "message"
  /\ codec' = [codec EXCEPT !.pc = "encoded", !.data = Encode(codec.m)]
  /\ UNCHANGED <<hubVars, mux, ws, cl, uniVars>>

\* err := got.Decode(data), into a fresh Message.
MessageDecode ==
  /\ codec.pc \in {"encoded", "frame"}
  /\ codec' = [codec EXCEPT !.pc = IF codec.pc = "encoded" THEN "roundtrip" ELSE "decoded",
                            !.out = Decode(codec.data)]
  /\ UNCHANGED <<hubVars, mux, ws, cl, uniVars>>

NextCodec == MessageEncode \/ MessageDecode

SpecCodec == InitCodec /\ [][NextCodec]_vars

\* --------------------------------- internal/server: the multiplexed port
\* What a peer sends is a sequence of items, read off the socket in order:
\* its first four bytes, then (for an HTTP peer) the rest of the request
\* line with the headers up to the blank line, then single bytes, numbered.
\* A peer that closes before it has sent four bytes has sent one short item.
Item(kind, text, n, hdr) == [kind |-> kind, text |-> text, n |-> n, hdr |-> hdr]

NoHeader == [line |-> "", Upgrade |-> "", Connection |-> "", Key |-> ""]
Prefix(p) == Item("prefix", p, 0, NoHeader)
Short == Item("short", "GE", 0, NoHeader)
Request(h) == Item("head", "", 0, h)
Byte(n) == Item("byte", "", n, NoHeader)

protocolTCP == 0
protocolHTTP == 1

\* First four bytes a peer may send: request-line starts, near misses, and
\* the start of a binary frame.
Prefixes == {"GET ", "POST", "PUT ", "HEAD", "OPTI", "PATC", "DELE", "CONN",
             "get ", "GETX", "bin1"}

\* detectProtocol, after a successful Peek(4): the four bytes.HasPrefix tests.
detectProtocol(peek) ==
  IF peek \in {"GET ", "POST", "PUT ", "HEAD"} THEN protocolHTTP ELSE protocolTCP

\* UnifiedServer.handleConnection, after a successful Peek(4): isHTTP.
isHTTP(prefix) ==
  prefix \in {"GET ", "POST", "PUT ", "HEAD", "OPTI", "PATC", "DELE", "CONN"}

\* The header values a request may carry.
UpgradeValues == {"websocket", "WebSocket", "h2c", ""}
ConnectionValues == {"Upgrade", "keep-alive, Upgrade", "close", ""}
KeyValues == {"dGhlIHNhbXBsZSBub25jZQ==", ""}
Headers == [line : {"ok", "malformed"}, Upgrade : UpgradeValues,
            Connection : ConnectionValues, Key : KeyValues]

\* strings.ToLower on the header values above.
ToLower(v) ==
  CASE v = "WebSocket" -> "websocket"
    [] v = "Upgrade" -> "upgrade"
    [] v = "keep-alive, Upgrade" -> "keep-alive, upgrade"
    [] OTHER -> v

\* strings.Contains(v, "upgrade") on the lowered header values above.
ContainsUpgrade(v) == v \in {"upgrade", "keep-alive, upgrade"}

\* The method http.ReadRequest parses out of a request line starting with p.
Method(p) ==
  CASE p = "GET " -> "GET"
    [] p = "POST" -> "POST"
    [] p = "PUT " -> "PUT"
    [] OTHER -> "HEAD"

\* isWebSocketUpgrade(req)
isWebSocketUpgrade(req) ==
  /\ req.Method = "GET"
  /\ ToLower(req.Upgrade) = "websocket"
  /\ ContainsUpgrade(ToLower(req.Connection))

\* The bytes 1..n a peer sends behind its prefix or its headers.
Bytes(n) == [i \in 1..n |-> Byte(i)]

\* The streams a peer may send before it closes its side.
Streams ==
  {<<>>, <<Short>>}
    \cup {<<Prefix(p)>> \o Bytes(n) : p \in Prefixes, n \in 0..MaxBytes}
    \cup {<<Prefix(p), Request(h)>> \o Bytes(n) :
            p \in {q \in Prefixes : isHTTP(q)}, h \in Headers, n \in 0..MaxBytes}

\* The clients the server holds before the connection comes in.
Others == {"other"}

\* A connection has been accepted by one of the two servers of the package;
\* stream is what its peer sends.  reader is the bufio.Reader: buf what it
\* holds unread, off how many items it has pulled off the socket.
InitMux ==
  /\ InitHub
  /\ Running
  /\ codec = CodecIdle
  /\ ws = WsIdle
  /\ InitUni
  /\ cl = ClientIdle
  /\ \E srv \in {"Server", "UnifiedServer"} : \E stream \in Streams :
       mux = [pc |-> "accepted", srv |-> srv, stream |-> stream,
              buf |-> <<>>, off |-> 0, proto |-> protocolTCP, kind |-> "none",
              clients |-> Others, closed |-> FALSE, wrote101 |-> FALSE,
              written |-> <<>>, delivered |-> <<>>]

\* reader.Peek(4) can return four bytes.
PeekOK == mux.stream # <<>> /\ mux.stream[1].kind = "prefix"

\* Mutant: the error branch does not return and the connection is registered.
FailRegisters(m) ==
  [m EXCEPT !.pc = "open", !.kind = "tcp", !.clients = @ \cup {"conn"}]

\* The error branches of handleConnection: log, rawConn.Close(), return.
Fail(m) == [m EXCEPT !.pc = "failed", !.closed = TRUE]

\* The client is built around conn and stored in s.clients.
RegisterClient(m, kind) ==
  [m EXCEPT !.pc = "open", !.kind = kind, !.clients = @ \cup {"conn"}]

\* Server.handleConnection, up to the switch: detectProtocol(rawConn).  Peek
\* pulls at least the four bytes and whatever else has arrived with them.
HandleConnection ==
  /\ mux.pc = "accepted" /\ mux.srv = "Server"
  /\ IF PeekOK
       THEN \E k \in 1..Len(mux.stream) :
              mux' = [mux EXCEPT !.buf = SubSeq(mux.stream, 1, k), !.off = k,
                                 !.proto = detectProtocol(mux.stream[1].text),
                                 !.pc = "detected"]
       ELSE mux' = Fail(mux)
  /\ UNCHANGED <<hubVars, codec, ws, cl, uniVars>>

\* What is left of the look-ahead buffer for the connection upgradeWebSocket
\* returns: NewWebSocketConnection(rawConn) reads the socket, not the reader.
AfterUpgrade(buf) == <<>>

\* computeAcceptKey's constant.
websocketGUID == "258EAFA5-E914-47DA-95CA-C5AB0DC85B11"

\* sha1.New(), h.Write(bytes) and h.Sum(nil): the hash stands for the bytes
\* written into it so far, the digest for the digest of exactly those bytes.
Sha1New == ""
HashWrite(h, bytes) == h \o bytes
HashSum(h) == "sha1(" \o h \o ")"

\* base64.StdEncoding.EncodeToString
EncodeToString(digest) == "base64(" \o digest \o ")"

\* Mutant: the GUID is hashed before the key.
computeAcceptKeySwapped(key) ==
  EncodeToString(HashSum(HashWrite(HashWrite(Sha1New, websocketGUID), key)))

\* computeAcceptKey(key)
computeAcceptKey(key) ==
  EncodeToString(HashSum(HashWrite(HashWrite(Sha1New, key), websocketGUID)))

\* The response upgradeWebSocket formats, as its lines, each ended by CRLF.
UpgradeResponse(acceptKey) ==
  <<"HTTP/1.1 101 Switching Protocols",
    "Upgrade: websocket",
    "Connection: Upgrade",
    "Sec-WebSocket-Accept: " \o acceptKey,
    "">>

\* Server.handleConnection, case protocolHTTP: upgradeWebSocket.
\* http.ReadRequest reads the request through the reader, which may pull
\* more than the headers; then the header test (Sec-WebSocket-Key is read
\* and hashed, never tested), the 101 response (a write that can fail) and
\* the registration of the client.
UpgradeWebSocket ==
  /\ mux.pc = "detected" /\ mux.proto = protocolHTTP
  /\ IF Len(mux.stream) < 2 \/ mux.stream[2].hdr.line = "malformed"
       THEN mux' = Fail(mux)
       ELSE LET h == mux.stream[2].hdr
                req == [Method |-> Method(mux.stream[1].text), Upgrade |-> h.Upgrade,
                        Connection |-> h.Connection, Key |-> h.Key]
            IN IF ~isWebSocketUpgrade(req)
                 THEN mux' = Fail(mux)
                 ELSE \/ mux' = Fail(mux)
                      \/ \E k \in 2..Len(mux.stream) :
                           /\ k >= mux.off
                           /\ mux' = [RegisterClient(mux, "ws") EXCEPT
                                        !.wrote101 = TRUE, !.off = k,
                                        !.written = @ \o UpgradeResponse(
                                                     computeAcceptKey(req.Key)),
                                        !.buf = AfterUpgrade(SubSeq(mux.stream, 3, k))]
  /\ UNCHANGED <<hubVars, codec, ws, cl, uniVars>>

\* Server.handleConnection, case protocolTCP: NewTCPConnectionWithReader and
\* the registration of the client.
WrapTCP ==
  /\ mux.pc = "detected" /\ mux.proto = protocolTCP
  /\ mux' = RegisterClient(mux, "tcp")
  /\ UNCHANGED <<hubVars, codec, ws, cl, uniVars>>

\* UnifiedServer.handleConnection: Peek(4), isHTTP, and then either
\* handleHTTPConnection (the connection goes to net/http behind a
\* bufferedConn that reads through the reader) or handleRawTCPConnection.
UnifiedHandleConnection ==
  /\ mux.pc = "accepted" /\ mux.srv = "UnifiedServer"
  /\ IF PeekOK
       THEN \E k \in 1..Len(mux.stream) :
              LET m == [mux EXCEPT !.buf = SubSeq(mux.stream, 1, k), !.off = k]
              IN IF isHTTP(mux.stream[1].text)
                   THEN mux' = [m EXCEPT !.proto = protocolHTTP, !.pc = "served"]
                   ELSE mux' = RegisterClient(m, "tcp")
       ELSE mux' = Fail(mux)
  /\ UNCHANGED <<hubVars, codec, ws, cl, uniVars>>

\* client.conn.Read(buf) in the read loop of the registered client.  A
\* TCPConnection built around the reader returns what the reader holds and
\* then what the socket has; a WebSocketConnection reads the socket.  At the
\* end of the stream Read returns io.EOF and the deferred function
\* unregisters the client and closes the connection.
ConnRead ==
  /\ mux.pc = "open"
  /\ IF mux.buf # <<>>
       THEN \E n \in 1..Len(mux.buf) :
              mux' = [mux EXCEPT !.delivered = @ \o SubSeq(mux.buf, 1, n),
                                 !.buf = SubSeq(mux.buf, n + 1, Len(mux.buf))]
       ELSE IF mux.off < Len(mux.stream)
              THEN \E k \in (mux.off + 1)..Len(mux.stream) :
                     mux' = [mux EXCEPT !.delivered = @ \o SubSeq(mux.stream, mux.off + 1, k),
                                        !.off = k]
              ELSE mux' = [mux EXCEPT !.pc = "done", !.closed = TRUE,
                                      !.clients = @ \ {"conn"}]
  /\ UNCHANGED <<hubVars, codec, ws, cl, uniVars>>

NextMux ==
  \/ HandleConnection
  \/ UpgradeWebSocket
  \/ WrapTCP
  \/ UnifiedHandleConnection
  \/ ConnRead

SpecMux == InitMux /\ [][NextMux]_vars

\* ------------------------- internal/server: the framed connection adapter
\* The payloads of the frames the transport delivers, given their lengths:
\* the bytes are numbered through, so that each is told from every other.
RECURSIVE FramesFrom(_, _)
FramesFrom(lens, first) ==
  IF lens = <<>>
    THEN <<>>
    ELSE <<[i \in 1..Head(lens) |-> first + i - 1]>>
           \o FramesFrom(Tail(lens), first + Head(lens))

\* The bytes of a sequence of payloads, one after the other.
RECURSIVE Flatten(_)
Flatten(frames) ==
  IF frames = <<>> THEN <<>> ELSE Head(frames) \o Flatten(Tail(frames))

\* The sequences of at most n payload lengths.
RECURSIVE LengthSeqs(_)
LengthSeqs(n) ==
  IF n = 0
    THEN {<<>>}
    ELSE LET shorter == LengthSeqs(n - 1)
         IN shorter \cup {Append(l, k) : l \in shorter, k \in 0..MaxFrameLen}

\* NewWebSocketConnection(conn), with the frames its peer is going to send.
InitWs ==
  /\ InitHub
  /\ Running
  /\ codec = CodecIdle
  /\ mux = MuxIdle
  /\ InitUni
  /\ cl = ClientIdle
  /\ \E lens \in LengthSeqs(MaxWsFrames) :
       ws = [pc |-> "open", sent |-> FramesFrom(lens, 1),
             frames |-> FramesFrom(lens, 1),
             readBuffer |-> <<>>, readBufferPos |-> 0,
             got |-> <<>>, replayed |-> FALSE]

\* copy(buf, src) with len(buf) = k: the bytes that end up in buf.
Copy(k, src) == SubSeq(src, 1, IF k < Len(src) THEN k ELSE Len(src))

\* Mutant: what does not fit into the caller's buffer is dropped.
SurplusDropped(data, n) == <<>>

\* data[n:], what Read keeps in readBuffer when the payload is longer than
\* the caller's buffer.
Surplus(data, n) == SubSeq(data, n + 1, Len(data))

\* WebSocketConnection.Read(buf) with len(buf) = k (WebSocketClientConnection
\* .Read is the same code): first what is left in readBuffer, else the next
\* binary message of the transport, or its error when there is none.
WebSocketConnectionRead(k) ==
  /\ ws.pc = "open"
  /\ IF ws.readBufferPos < Len(ws.readBuffer)
       THEN LET out == Copy(k, SubSeq(ws.readBuffer, ws.readBufferPos + 1,
                                      Len(ws.readBuffer)))
                pos == ws.readBufferPos + Len(out)
            IN ws' = [ws EXCEPT !.got = @ \o out,
                                !.replayed = TRUE,
                                !.readBuffer = IF pos >= Len(@) THEN <<>> ELSE @,
                                !.readBufferPos = IF pos >= Len(ws.readBuffer)
                                                    THEN 0 ELSE pos]
       ELSE IF ws.frames = <<>>
              THEN ws' = [ws EXCEPT !.pc = "eof"]
              ELSE LET data == Head(ws.frames)
                       out == Copy(k, data)
                   IN ws' = [ws EXCEPT !.frames = Tail(@),
                                       !.got = @ \o out,
                                       !.readBuffer = IF Len(out) < Len(data)
                                                        THEN Surplus(data, Len(out))
                                                        ELSE @,
                                       !.readBufferPos = 0]
  /\ UNCHANGED <<hubVars, codec, mux, cl, uniVars>>

NextWs == \E k \in 1..MaxBuf : WebSocketConnectionRead(k)

SpecWs == InitWs /\ [][NextWs]_vars

\* ------------------------- internal/server: UnifiedServer, single port
\* Frames the read loops have taken off their connections, all clients.
TotalURead == LET RECURSIVE Sum(_)
                  Sum(n) == IF n = 0 THEN 0 ELSE unread[n] + Sum(n - 1)
              IN Sum(NumPeers)

\* The server process is alive: no goroutine has panicked.
UAlive == \A c \in Peers : upc[c] # "panic"

\* s.quit has been closed, s.listener has been closed: Stop does the one and
\* then the other.
QuitClosed == ustop # "idle"

ListenerClosed == ustop \in {"wait", "returned"}

\* acceptConnections, one turn of the loop: Accept, wg.Add(1),
\* go handleConnection, and the select on s.quit at the top of the loop.
UAccept ==
  /\ UAlive
  /\ uacc = "accept"
  /\ ~ListenerClosed
  /\ uaccepted < NumPeers
  /\ uaccepted + TotalURead < MaxUEvents
  /\ LET c == uaccepted + 1 IN
       /\ uaccepted' = c
       /\ uconn' = [uconn EXCEPT ![c] = "open"]
       /\ upc' = [upc EXCEPT ![c] = "peek"]
  /\ uacc' = AfterSelect(QuitClosed)
  /\ UNCHANGED <<uclients, utype, uout, uoutClosed, uwpc, uwdone, unread,
                 upeeked>>
  /\ UNCHANGED <<hubVars, codec, mux, ws, cl, ustop>>

\* handleConnection when Peek(4) fails (the peer is gone before it has sent
\* four bytes): log, conn.Close(), return.
UPeekFails(c) ==
  /\ UAlive
  /\ upc[c] = "peek"
  /\ upc' = [upc EXCEPT ![c] = "done"]
  /\ uconn' = [uconn EXCEPT ![c] = "closed"]
  /\ UNCHANGED <<uclients, utype, uout, uoutClosed, uwpc, uwdone, unread,
                 uaccepted, upeeked>>
  /\ UNCHANGED <<hubVars, codec, mux, ws, cl, ustop, uacc>>

\* s.clients[client] = true, whatever the client's type.
RegisterUnified(cs, c, kind) == cs \cup {c}

\* handleConnection when Peek(4) returns the prefix: isHTTP, and then
\* handleHTTPConnection (an http.Server is given the connection) or
\* handleRawTCPConnection (the client is built and stored under the write
\* lock, go handleTCPClientWithReader, which starts the writer goroutine).
UHandleConnection(c) ==
  /\ UAlive
  /\ upc[c] = "peek"
  /\ \E prefix \in Prefixes :
       IF isHTTP(prefix)
         THEN /\ upc' = [upc EXCEPT ![c] = "http"]
              /\ UNCHANGED <<uclients, utype, uwpc, upeeked>>
         ELSE /\ utype' = [utype EXCEPT ![c] = "tcp"]
              /\ uclients' = RegisterUnified(uclients, c, "tcp")
              /\ upc' = [upc EXCEPT ![c] = "read"]
              /\ uwpc' = [uwpc EXCEPT ![c] = "run"]
              /\ upeeked' = [upeeked EXCEPT ![c] = TRUE]
  /\ UNCHANGED <<uout, uoutClosed, uconn, uwdone, unread, uaccepted>>
  /\ UNCHANGED <<hubVars, codec, mux, ws, cl, ustop, uacc>>

\* handleWebSocket when upgrader.Upgrade succeeds: the client is built and
\* stored under the write lock, go handleWebSocketClient, which starts the
\* writer goroutine.
UHandleWebSocket(c) ==
  /\ UAlive
  /\ upc[c] = "http"
  /\ utype' = [utype EXCEPT ![c] = "websocket"]
  /\ uclients' = RegisterUnified(uclients, c, "websocket")
  /\ upc' = [upc EXCEPT ![c] = "read"]
  /\ uwpc' = [uwpc EXCEPT ![c] = "run"]
  /\ UNCHANGED <<uout, uoutClosed, uconn, uwdone, unread, uaccepted,
                 upeeked>>
  /\ UNCHANGED <<hubVars, codec, mux, ws, cl, ustop, uacc>>

\* The http.Server is done with a connection that never upgraded (the peer
\* has gone, or what it sent is no request): it closes the connection.
UHTTPGivesUp(c) ==
  /\ UAlive
  /\ upc[c] = "http"
  /\ upc' = [upc EXCEPT ![c] = "done"]
  /\ uconn' = [uconn EXCEPT ![c] = "closed"]
  /\ UNCHANGED <<uclients, utype, uout, uoutClosed, uwpc, uwdone, unread,
                 uaccepted, upeeked>>
  /\ UNCHANGED <<hubVars, codec, mux, ws, cl, ustop, uacc>>

\* What a payload in a channel is once its sender's read loop has read again:
\* handleTCPClientWithReader broadcasts buf[:n], a slice of the one buffer it
\* reads every frame into, so the bytes of a payload still queued are
\* overwritten by the next frame; ReadMessage returns a slice of its own.
Overwritten == [wellformed |-> FALSE, kind |-> 0, sender |-> "", content |-> "torn"]

Clobber(q, c, data) ==
  [i \in 1..Len(q) |->
     IF q[i].from = c /\ utype[c] = "tcp" /\ q[i].data # data
       THEN [q[i] EXCEPT !.data = Overwritten]
       ELSE q[i]]

\* broadcast: RLock, then for every member but the sender the non-blocking
\* send, RUnlock.  A send on a channel that has been closed panics, after the
\* members the range has visited before have been served.
UBroadcast(c, e, after, q) ==
  LET todo == Recipients(uclients, c)
      closed == {r \in todo : uoutClosed[r]}
  IN IF closed = {}
       THEN /\ uout' = [d \in Peers |-> IF d \in todo THEN Enqueue(q[d], e) ELSE q[d]]
            /\ upc' = [upc EXCEPT ![c] = after]
       ELSE \E served \in SUBSET (todo \ closed) :
              /\ uout' = [d \in Peers |-> IF d \in served THEN Enqueue(q[d], e) ELSE q[d]]
              /\ upc' = [upc EXCEPT ![c] = "panic"]

\* The read loop of handleTCPClientWithReader and of handleWebSocketClient,
\* one iteration in which the read returns the frame data: Decode (a frame
\* that does not decode, like a websocket message that is not binary, is
\* skipped), the switch on msg.Type and the call of broadcast.  (The JOIN
\* case also stores msg.Sender in client.username, a field nothing reads.)
UReadFrameOf(c, data) ==
  /\ UAlive
  /\ upc[c] = "read"
  /\ uaccepted + TotalURead < MaxUEvents
  /\ unread' = [unread EXCEPT ![c] = @ + 1]
  /\ upeeked' = [upeeked EXCEPT ![c] = FALSE]
  /\ LET r == Decode(data)
         q == [d \in Peers |-> Clobber(uout[d], c, data)]
     IN IF r.err
          THEN /\ uout' = q
               /\ UNCHANGED upc
          ELSE UBroadcast(c, Entry(Payload(data, r.msg), c, unread[c] + 1),
                          AfterMessage(r.msg), q)
  /\ UNCHANGED <<uclients, utype, uoutClosed, uconn, uwpc, uwdone, uaccepted>>
  /\ UNCHANGED <<hubVars, codec, mux, ws, cl, ustop, uacc>>

UReadFrame(c) == \E data \in InFrames : UReadFrameOf(c, data)

\* The read loop when the read returns an error or io.EOF: return.  What
\* Peek has pulled is read before the connection's end is seen.
UReadError(c) ==
  /\ UAlive
  /\ upc[c] = "read"
  /\ ~upeeked[c]
  /\ upc' = [upc EXCEPT ![c] = "return"]
  /\ UNCHANGED <<uclients, utype, uout, uoutClosed, uconn, uwpc, uwdone,
                 unread, uaccepted, upeeked>>
  /\ UNCHANGED <<hubVars, codec, mux, ws, cl, ustop, uacc>>

\* The first deferred function of the handler: close(client.outgoing), and
\* then the wait for writerDone.
UCloseOutgoing(c) ==
  /\ UAlive
  /\ upc[c] = "return"
  /\ uoutClosed' = [uoutClosed EXCEPT ![c] = TRUE]
  /\ upc' = [upc EXCEPT ![c] = "wait"]
  /\ UNCHANGED <<uclients, utype, uout, uconn, uwpc, uwdone, unread,
                 uaccepted, upeeked>>
  /\ UNCHANGED <<hubVars, codec, mux, ws, cl, ustop, uacc>>

\* The other deferred functions, once writerDone is closed: delete(s.clients,
\* client) under the write lock, conn.Close(), wg.Done().
UFinish(c) ==
  /\ UAlive
  /\ upc[c] = "wait"
  /\ uwdone[c]
  /\ uclients' = uclients \ {c}
  /\ uconn' = [uconn EXCEPT ![c] = "closed"]
  /\ upc' = [upc EXCEPT ![c] = "done"]
  /\ UNCHANGED <<utype, uout, uoutClosed, uwpc, uwdone, unread, uaccepted,
                 upeeked>>
  /\ UNCHANGED <<hubVars, codec, mux, ws, cl, ustop, uacc>>

\* Whether the writer goroutine closes writerDone when a write fails:
\* handleTCPClientWithReader defers the close, handleWebSocketClient closes
\* the channel behind the loop only.
ClosesDoneOnError(kind) == kind = "tcp"

\* The writer goroutine, one iteration of `range client.outgoing`: write the
\* payload; on an error log and return.
UWrite(c) ==
  /\ UAlive
  /\ uwpc[c] = "run"
  /\ uout[c] # <<>>
  /\ uout' = [uout EXCEPT ![c] = Tail(@)]
  /\ \/ UNCHANGED <<uwpc, uwdone>>
     \/ /\ uwpc' = [uwpc EXCEPT ![c] = "failed"]
        /\ uwdone' = [uwdone EXCEPT ![c] = ClosesDoneOnError(utype[c])]
  /\ UNCHANGED <<uclients, utype, uoutClosed, uconn, upc, unread,
                 uaccepted, upeeked>>
  /\ UNCHANGED <<hubVars, codec, mux, ws, cl, ustop, uacc>>

\* The writer goroutine when the channel is closed and drained: the range
\* ends and writerDone is closed.
UWriterExit(c) ==
  /\ UAlive
  /\ uwpc[c] = "run"
  /\ uout[c] = <<>>
  /\ uoutClosed[c]
  /\ uwpc' = [uwpc EXCEPT ![c] = "done"]
  /\ uwdone' = [uwdone EXCEPT ![c] = TRUE]
  /\ UNCHANGED <<uclients, utype, uout, uoutClosed, uconn, upc, unread,
                 uaccepted, upeeked>>
  /\ UNCHANGED <<hubVars, codec, mux, ws, cl, ustop, uacc>>

\* acceptConnections when Accept returns an error: the listener has been
\* closed, after s.quit, so the inner select returns.
UAcceptFails ==
  /\ UAlive
  /\ uacc = "accept"
  /\ ListenerClosed
  /\ uacc' = AfterSelect(QuitClosed)
  /\ UNCHANGED <<uclients, utype, uout, uoutClosed, uconn, upc, uwpc, uwdone,
                 unread, uaccepted, upeeked, ustop>>
  /\ UNCHANGED <<hubVars, codec, mux, ws, cl>>

\* UnifiedServer.Stop: close(s.quit).
UStopQuit ==
  /\ UAlive
  /\ ustop = "idle"
  /\ ustop' = "listener"
  /\ UNCHANGED <<uclients, utype, uout, uoutClosed, uconn, upc, uwpc, uwdone,
                 unread, uaccepted, upeeked, uacc>>
  /\ UNCHANGED <<hubVars, codec, mux, ws, cl>>

\* UnifiedServer.Stop: s.listener.Close().  (No client connection is
\* closed: "they will be closed by handleClient functions".)
UStopListener ==
  /\ UAlive
  /\ ustop = "listener"
  /\ ustop' = "wait"
  /\ UNCHANGED <<uclients, utype, uout, uoutClosed, uconn, upc, uwpc, uwdone,
                 unread, uaccepted, upeeked, uacc>>
  /\ UNCHANGED <<hubVars, codec, mux, ws, cl>>

\* The positions at which a connection's goroutine holds a count of s.wg:
\* handleConnection in Peek, and the client handler until its deferred
\* wg.Done.  (handleHTTPConnection returns as soon as the http.Server has
\* taken the connection, and handleWebSocket adds to the group again.)
HoldsWaitGroup == {"peek", "read", "return", "wait"}

\* The counter of s.wg is zero.
UWaitGroupZero ==
  /\ uacc = "returned"
  /\ \A c \in Peers : upc[c] \notin HoldsWaitGroup

\* UnifiedServer.Stop: s.wg.Wait() returns, and Stop with it.
UStopWait ==
  /\ UAlive
  /\ ustop = "wait"
  /\ UWaitGroupZero
  /\ ustop' = "returned"
  /\ UNCHANGED <<uclients, utype, uout, uoutClosed, uconn, upc, uwpc, uwdone,
                 unread, uaccepted, upeeked, uacc>>
  /\ UNCHANGED <<hubVars, codec, mux, ws, cl>>

InitUnified ==
  /\ InitHub
  /\ Running
  /\ codec = CodecIdle
  /\ mux = MuxIdle
  /\ ws = WsIdle
  /\ InitUni
  /\ cl = ClientIdle

NextUnified ==
  \/ UAccept
  \/ \E c \in Peers : UPeekFails(c)
  \/ \E c \in Peers : UHandleConnection(c)
  \/ \E c \in Peers : UHandleWebSocket(c)
  \/ \E c \in Peers : UHTTPGivesUp(c)
  \/ \E c \in Peers : UReadFrame(c)
  \/ \E c \in Peers : UReadError(c)
  \/ \E c \in Peers : UCloseOutgoing(c)
  \/ \E c \in Peers : UFinish(c)
  \/ \E c \in Peers : UWrite(c)
  \/ \E c \in Peers : UWriterExit(c)
  \/ UAcceptFails
  \/ UStopQuit
  \/ UStopListener
  \/ UStopWait

SpecUnified == InitUnified /\ [][NextUnified]_vars

\* ------------------------------------ tcp sessions that are all open
\* The listener after it has accepted every connection: each client is
\* registered and has its read task in Conn.Read and its write task running.
InitQueue ==
  /\ clients = Clients
  /\ Username = [c \in Clients |-> ""]
  /\ Outgoing = [c \in Clients |-> <<>>]
  /\ chanClosed = [c \in Clients |-> FALSE]
  /\ connClosed = [c \in Clients |-> FALSE]
  /\ accepted = NumClients
  /\ rpc = [c \in Clients |-> "read"]
  /\ wpc = [c \in Clients |-> "run"]
  /\ bc = [c \in Clients |-> NoBroadcast]
  /\ nread = [c \in Clients |-> 0]
  /\ lastw = [r \in Clients |-> [s \in Clients |-> 0]]
  /\ badSeen = [c \in Clients |-> FALSE]
  /\ call = NoCall
  /\ between = Clients
  /\ stops = 0
  /\ closeCalls = [c \in Clients |-> 0]
  /\ Running
  /\ codec = CodecIdle
  /\ mux = MuxIdle
  /\ ws = WsIdle
  /\ InitUni
  /\ cl = ClientIdle

\* What the sending peer sends: text, and LEAVE as its last frame.
QueueFrames == {TestPayload, Frame(PbLeave, "x", "")}

\* The first peer sends up to MaxQueueReads frames and the others keep
\* silent; its read task broadcasts them and returns after a LEAVE, and the
\* write tasks write them.
NextQueue ==
  \/ \E data \in QueueFrames : TotalRead < MaxQueueReads /\ HandleFrame(1, data)
  \/ \E c \in Clients : BroadcastStep(c)
  \/ \E c \in Clients : HandleClientReturn(c)
  \/ \E c \in Clients : WriteLoop(c)
  \/ \E c \in Clients : WriteLoopExit(c)

SpecQueue == InitQueue /\ [][NextQueue]_vars

\* ------------------------------- the Hub with two senders, two observers
\* A hub that holds NumMembers registered clients whose channels are empty
\* (Register has been called for each of them; no task is running).
Members == 1..NumMembers

InitOrder ==
  /\ clients = Members
  /\ Username = [c \in Members |-> ""]
  /\ Outgoing = [c \in Members |-> <<>>]
  /\ chanClosed = [c \in Members |-> FALSE]
  /\ connClosed = [c \in Members |-> FALSE]
  /\ accepted = 0
  /\ rpc = [c \in Members |-> "idle"]
  /\ wpc = [c \in Members |-> "idle"]
  /\ bc = [c \in Members |-> NoBroadcast]
  /\ nread = [c \in Members |-> 0]
  /\ lastw = [r \in Members |-> [s \in Members |-> 0]]
  /\ badSeen = [c \in Members |-> FALSE]
  /\ call = NoCall
  /\ between = Members
  /\ stops = 0
  /\ closeCalls = [c \in Members |-> 0]
  /\ Running
  /\ codec = CodecIdle
  /\ mux = MuxIdle
  /\ ws = WsIdle
  /\ InitUni
  /\ cl = ClientIdle

\* The tasks that call hub.Broadcast.
Senders == {1, 2}

\* Up to MaxBroadcasts calls of Broadcast by the senders, each by a task of
\* its own, and the members receiving from their channels.
NextOrder ==
  \/ \E c \in Senders : call.n < MaxBroadcasts /\ HubBroadcast(c)
  \/ \E c \in Members : BroadcastStep(c)
  \/ \E c \in Members : HubReceive(c)

SpecOrder == InitOrder /\ [][NextOrder]_vars

\* ------------------------------------------- internal/client: the clients
\* The client types of the library: tcp.Client and ws.Client (which differ in
\* their connection type only) and WebSocketClient, whose Disconnect is
\* guarded by isShutdown and a sync.Once.
Impls == {"tcp", "ws", "WebSocketClient"}

\* The connections a client dials, numbered; 0 stands for a nil conn.
Dials == 1..MaxDials

SendOps == {"SendMessage", "Join", "Leave"}

NoClientCall == [op |-> "none", err |-> ""]

\* New / NewWebSocketClient: no connection, the done channel open, the
\* messages channel empty.
NewClient(impl) ==
  [pc |-> "idle", impl |-> impl, conn |-> 0, dialed |-> 0,
   sock |-> [n \in Dials |-> "none"], writes |-> [n \in Dials |-> 0],
   isShutdown |-> FALSE, done |-> FALSE, doneOnce |-> FALSE,
   rx |-> [n \in Dials |-> [pc |-> "none", conn |-> 0]],
   messages |-> 0, recv |-> 0, calls |-> 0, last |-> NoClientCall,
   panicked |-> FALSE]

InitClient ==
  /\ InitHub
  /\ Running
  /\ codec = CodecIdle
  /\ mux = MuxIdle
  /\ ws = WsIdle
  /\ InitUni
  /\ \E impl \in Impls : cl = NewClient(impl)

\* The application may make its next call: no call is under way, the
\* process has not panicked.
AppIdle == cl.pc = "idle" /\ ~cl.panicked /\ cl.calls + cl.recv < MaxClientEvents

\* The call op has returned err.
Returned(c, op, err) ==
  [c EXCEPT !.pc = "idle", !.calls = @ + 1, !.last = [op |-> op, err |-> err]]

\* IsConnected: c.conn != nil, under the read lock.
IsConnected == cl.conn # 0

\* Connect: Dial; on an error return it; else c.conn = conn under the lock,
\* wg.Add(1), go receiveMessages.
Connect ==
  /\ AppIdle
  /\ \/ cl' = Returned(cl, "Connect", "failed to connect to server")
     \/ /\ cl.dialed < MaxDials
        /\ LET n == cl.dialed + 1 IN
             cl' = Returned([cl EXCEPT !.dialed = n, !.conn = n,
                                       !.sock[n] = "open",
                                       !.rx[n] = [pc |-> "select", conn |-> 0]],
                            "Connect", "")
  /\ UNCHANGED <<hubVars, codec, mux, ws, uniVars>>

\* Mutant: send does not test conn.
NotConnectedNever(conn) == FALSE

\* send: `if conn == nil`.
NotConnected(conn) == conn = 0

\* SendMessage, Join and Leave build their message and call send: conn is
\* read under the read lock; a nil conn returns the error; else the message
\* is encoded and written, and a write error is returned.
Send(op) ==
  /\ AppIdle
  /\ LET conn == cl.conn IN
       IF NotConnected(conn)
         THEN cl' = Returned(cl, op, "not connected to server")
         ELSE IF conn \in Dials /\ cl.sock[conn] = "open"
                THEN cl' = Returned([cl EXCEPT !.writes[conn] = @ + 1], op, "")
                ELSE cl' = Returned(cl, op, "failed to send message")
  /\ UNCHANGED <<hubVars, codec, mux, ws, uniVars>>

\* Whether Disconnect returns at once: WebSocketClient tests isShutdown,
\* the other clients have no such test.
AlreadyShutdown(c) == c.impl = "WebSocketClient" /\ c.isShutdown

\* Disconnect, the part under the lock: (WebSocketClient: return if
\* isShutdown, else set it;) close the connection if there is one and set
\* c.conn to nil.
DisconnectLocked ==
  /\ AppIdle
  /\ IF AlreadyShutdown(cl)
       THEN cl' = Returned(cl, "Disconnect", "")
       ELSE cl' = [cl EXCEPT
                     !.pc = "close",
                     !.isShutdown = (cl.impl = "WebSocketClient"),
                     !.conn = 0,
                     !.sock = [n \in Dials |-> IF n = cl.conn THEN "closed" ELSE @[n]]]
  /\ UNCHANGED <<hubVars, codec, mux, ws, uniVars>>

\* Whether the close of c.done goes through a sync.Once.
ClosesOnce(impl) == impl = "WebSocketClient"

\* Disconnect: close(c.done), by WebSocketClient inside doneOnce.Do.  The
\* close of a closed channel panics.
DisconnectCloseDone ==
  /\ cl.pc = "close"
  /\ ~cl.panicked
  /\ IF ClosesOnce(cl.impl)
       THEN cl' = [cl EXCEPT !.pc = "wait", !.doneOnce = TRUE,
                             !.done = IF cl.doneOnce THEN @ ELSE TRUE]
       ELSE IF cl.done
              THEN cl' = [cl EXCEPT !.panicked = TRUE]
              ELSE cl' = [cl EXCEPT !.pc = "wait", !.done = TRUE]
  /\ UNCHANGED <<hubVars, codec, mux, ws, uniVars>>

\* Disconnect: c.wg.Wait() returns once every receiveMessages goroutine has
\* run its wg.Done, and Disconnect returns.
DisconnectWait ==
  /\ cl.pc = "wait"
  /\ ~cl.panicked
  /\ \A n \in Dials : cl.rx[n].pc \in {"none", "done"}
  /\ cl' = Returned(cl, "Disconnect", "")
  /\ UNCHANGED <<hubVars, codec, mux, ws, uniVars>>

\* receiveMessages, the top of the loop: the select on c.done, then conn is
\* read under the read lock, a nil conn returns, and the goroutine goes into
\* the Read of that conn.
ReceiveSelect(n) ==
  /\ ~cl.panicked
  /\ cl.rx[n].pc = "select"
  /\ cl' = [cl EXCEPT !.rx[n] =
              IF cl.done \/ cl.conn = 0
                THEN [pc |-> "done", conn |-> 0]
                ELSE [pc |-> "read", conn |-> cl.conn]]
  /\ UNCHANGED <<hubVars, codec, mux, ws, uniVars>>

\* receiveMessages, the Read returns: an error (the connection has been
\* closed, here or by the server) ends the goroutine; a frame is decoded,
\* one that does not decode is skipped.
ReceiveRead(n) ==
  /\ ~cl.panicked
  /\ cl.rx[n].pc = "read"
  /\ LET conn == cl.rx[n].conn IN
       \/ /\ cl.sock[conn] # "open"
          /\ cl' = [cl EXCEPT !.rx[n] = [pc |-> "done", conn |-> 0]]
       \/ /\ cl.sock[conn] = "open"
          /\ cl.calls + cl.recv < MaxClientEvents
          /\ \E decoded \in BOOLEAN :
               cl' = [cl EXCEPT !.recv = @ + 1,
                                !.rx[n].pc = IF decoded THEN "deliver" ELSE "select"]
  /\ UNCHANGED <<hubVars, codec, mux, ws, uniVars>>

\* receiveMessages, the select that hands the message on: the send into
\* c.messages when the channel has room, the return when c.done is closed.
ReceiveDeliver(n) ==
  /\ ~cl.panicked
  /\ cl.rx[n].pc = "deliver"
  /\ \/ /\ cl.messages < MessagesCap
        /\ cl' = [cl EXCEPT !.messages = @ + 1, !.rx[n].pc = "select"]
     \/ /\ cl.done
        /\ cl' = [cl EXCEPT !.rx[n] = [pc |-> "done", conn |-> 0]]
  /\ UNCHANGED <<hubVars, codec, mux, ws, uniVars>>

\* The application takes a message off Messages().
MessagesReceive ==
  /\ ~cl.panicked
  /\ cl.pc # "none"
  /\ cl.messages > 0
  /\ cl' = [cl EXCEPT !.messages = @ - 1]
  /\ UNCHANGED <<hubVars, codec, mux, ws, uniVars>>

\* The server closes a connection.
ServerCloses(n) ==
  /\ ~cl.panicked
  /\ cl.pc # "none"
  /\ cl.sock[n] = "open"
  /\ cl' = [cl EXCEPT !.sock[n] = "gone"]
  /\ UNCHANGED <<hubVars, codec, mux, ws, uniVars>>

NextClient ==
  \/ Connect
  \/ \E op \in SendOps : Send(op)
  \/ DisconnectLocked
  \/ DisconnectCloseDone
  \/ DisconnectWait
  \/ \E n \in Dials : ReceiveSelect(n)
  \/ \E n \in Dials : ReceiveRead(n)
  \/ \E n \in Dials : ReceiveDeliver(n)
  \/ MessagesReceive
  \/ \E n \in Dials : ServerCloses(n)

SpecClient == InitClient /\ [][NextClient]_vars

\* ======================================================== properties
\* r's queue holds the payload of call (or read) k of sender s.
HasEntry(r, s, k) ==
  \E i \in 1..Len(Outgoing[r]) : Outgoing[r][i].from = s /\ Outgoing[r][i].seq = k

\* r's queue holds a payload of sender s with the bytes data.
HasData(r, s, data) ==
  \E i \in 1..Len(Outgoing[r]) : Outgoing[r][i].from = s /\ Outgoing[r][i].data = data

\* This step serves one member r of todo for c's Broadcast of e: e goes to the
\* tail of r's queue if that has room and nowhere if not, no other queue
\* changes, and the call is over exactly when nobody is left.
Delivers(c, e, todo) ==
  IF todo = {}
    THEN Outgoing' = Outgoing /\ ~bc'[c].active
    ELSE \E r \in todo :
           /\ Outgoing' = [Outgoing EXCEPT ![r] =
                             IF Len(@) < OutgoingCap THEN Append(@, e) ELSE @]
           /\ IF todo = {r}
                THEN ~bc'[c].active
                ELSE /\ bc'[c].active
                     /\ bc'[c].todo = todo \ {r}
                     /\ bc'[c].data = e.data
                     /\ bc'[c].seq = e.seq

\* This step is a later iteration of c's running Broadcast.
Continues(c) == bc[c].active /\ bc'[c] # bc[c]

\* This step is the entry of a direct Broadcast call with sender s.
Entered(s) ==
  ~bc[s].active /\ call'.n = call.n + 1 /\ call'.op = "Broadcast" /\ call'.client = s

\* The frame decodes to a message of type t.
IsType(data, t) == ~Decode(data).err /\ Decode(data).msg.Type = t

\* ---- C1: Broadcast(payload, sender) puts payload exactly once on the queue
\* of every client that is registered during the call, is not the sender and
\* has room, and on no other queue.
C1_State ==
  /\ \A s \in Clients : bc[s].active => bc[s].todo \subseteq clients \ {s}
  /\ \A r \in Clients : \A i, j \in 1..Len(Outgoing[r]) :
       /\ Outgoing[r][i].from # r
       /\ (i # j /\ Outgoing[r][i].from = Outgoing[r][j].from)
            => Outgoing[r][i].seq # Outgoing[r][j].seq

C1_Step ==
  /\ \A s \in Clients :
       /\ Entered(s) => Delivers(s, Entry(TestPayload, s, call'.n), clients \ {s})
       /\ Continues(s) => Delivers(s, Entry(bc[s].data, s, bc[s].seq), bc[s].todo)
  /\ \A r \in Clients :
       Len(Outgoing'[r]) > Len(Outgoing[r])
         => /\ r \in clients
            /\ \E s \in Clients \ {r} : Entered(s) \/ Continues(s)

C1_BroadcastTargets == [](C1_State) /\ [][C1_Step]_vars

\* Three members; the last call was a Broadcast by one of them and it has put
\* its payload on the two other queues and not on the sender's.
C1_Witness ==
  \E s \in clients : \E r1, r2 \in clients \ {s} :
    /\ r1 # r2
    /\ call.op = "Broadcast" /\ call.client = s /\ ~bc[s].active
    /\ HasEntry(r1, s, call.n) /\ HasEntry(r2, s, call.n)
    /\ Outgoing[s] = <<>>

\* ---- C2: Broadcast never waits for a recipient: a full queue is left as it
\* is and the loop goes on, the members with room still get the payload, and
\* the call can always take its next step whatever the queues hold.
C2_Served(s) ==
  (IF Entered(s) THEN clients \ {s} ELSE IF bc[s].active THEN bc[s].todo ELSE {})
    \ (IF bc'[s].active THEN bc'[s].todo ELSE {})

C2_Step ==
  \A s \in Clients : \A r \in C2_Served(s) :
    IF Len(Outgoing[r]) >= OutgoingCap
      THEN Outgoing'[r] = Outgoing[r]
      ELSE /\ Len(Outgoing'[r]) = Len(Outgoing[r]) + 1
           /\ Outgoing'[r][Len(Outgoing'[r])].from = s

C2_NeverBlocks ==
  /\ [](\A s \in Clients : bc[s].active => ENABLED BroadcastStep(s))
  /\ [][C2_Step]_vars

\* The last call, a Broadcast, is over: it found r1's queue full and left it
\* alone, and r2 has its payload.
C2_Witness ==
  \E s \in Clients : \E r1, r2 \in clients \ {s} :
    /\ r1 # r2
    /\ call.op = "Broadcast" /\ call.client = s /\ ~bc[s].active
    /\ Len(Outgoing[r1]) = OutgoingCap /\ ~HasEntry(r1, s, call.n)
    /\ HasEntry(r2, s, call.n)

\* ---- C3: what a recipient's queue holds of one sender, and what its write
\* loop has written of that sender before, is in the order in which the
\* sender's read loop decoded it: nothing overtakes, nothing comes twice.
C3_PerSenderOrder ==
  \A r \in Clients : \A i \in 1..Len(Outgoing[r]) :
    LET e == Outgoing[r][i] IN
    /\ e.seq > lastw[r][e.from]
    /\ e.seq <= nread[e.from]
    /\ \A j \in 1..Len(Outgoing[r]) :
         (i < j /\ Outgoing[r][j].from = e.from) => e.seq < Outgoing[r][j].seq

\* r's write loop has written the first frame of s and holds the second.
C3_Witness ==
  \E r, s \in Clients : lastw[r][s] = 1 /\ HasEntry(r, s, 2)

\* ---- C4: on a JOIN frame the read loop sets the client's Username to the
\* frame's sender field and broadcasts the frame to every other member; the
\* client stays registered and the loop goes on reading.
C4_Step ==
  \A c \in Clients :
    /\ \A data \in InFrames :
         (ReadFrameOf(c, data) /\ IsType(data, MessageTypeJoin))
           => /\ Username'[c] = data.sender
              /\ Delivers(c, Entry(data, c, nread'[c]), clients \ {c})
              /\ clients' = clients /\ c \in clients
              /\ connClosed' = connClosed
              /\ rpc'[c] = "read"
    /\ (Continues(c) /\ IsType(bc[c].data, MessageTypeJoin))
         => /\ Delivers(c, Entry(bc[c].data, c, bc[c].seq), bc[c].todo)
            /\ rpc'[c] = "read" /\ c \in clients'

C4_JoinSetsUsername == [][C4_Step]_vars

\* c has joined as "x", another client holds the JOIN frame, and c is back at
\* Conn.Read, still a member.
C4_Witness ==
  \E c \in clients : \E r \in Clients \ {c} :
    /\ Username[c] = "x"
    /\ HasData(r, c, Frame(PbJoin, "x", ""))
    /\ rpc[c] = "read" /\ ~bc[c].active /\ ~connClosed[c]

\* ---- C5: on a TEXT frame every other member with room gets the very bytes
\* the sender's connection delivered, and the sender never gets its own frame.
C5_Step ==
  \A c \in Clients :
    /\ \A data \in InFrames :
         (ReadFrameOf(c, data) /\ IsType(data, MessageTypeText))
           => /\ Delivers(c, Entry(data, c, nread'[c]), clients \ {c})
              /\ Outgoing'[c] = Outgoing[c]
    /\ (Continues(c) /\ IsType(bc[c].data, MessageTypeText))
         => /\ Delivers(c, Entry(bc[c].data, c, bc[c].seq), bc[c].todo)
            /\ Outgoing'[c] = Outgoing[c]

C5_TextVerbatim ==
  /\ [](\A c \in Clients : \A i \in 1..Len(Outgoing[c]) : Outgoing[c][i].from # c)
  /\ [][C5_Step]_vars

\* A frame that decodes to TEXT only because its enum value is unknown sits
\* in another client's queue with that value intact.
C5_Witness ==
  \E c \in Clients : \E r \in clients \ {c} :
    /\ HasData(r, c, Frame(3, "x", "hello"))
    /\ \A i \in 1..Len(Outgoing[c]) : Outgoing[c][i].from # c

\* ---- C6: on a LEAVE frame the frame is broadcast first; then the loop ends,
\* the client is unregistered (ClientCount drops by one) and its connection
\* closed; nothing the client sends afterwards is read or broadcast.
C6_Step ==
  \A c \in Clients :
    /\ \A data \in InFrames :
         (ReadFrameOf(c, data) /\ IsType(data, MessageTypeLeave))
           => /\ Delivers(c, Entry(data, c, nread'[c]), clients \ {c})
              /\ rpc'[c] = "return"
              /\ c \in clients' /\ ~connClosed'[c]
    /\ (Continues(c) /\ IsType(bc[c].data, MessageTypeLeave))
         => /\ Delivers(c, Entry(bc[c].data, c, bc[c].seq), bc[c].todo)
            /\ rpc'[c] = "return"
            /\ c \in clients' /\ ~connClosed'[c]
    /\ rpc[c] = "return"
         => /\ nread'[c] = nread[c]
            /\ ~bc[c].active => ~bc'[c].active
            /\ rpc'[c] \in {"return", "done"}
            /\ rpc'[c] = "done"
                 => /\ ~bc[c].active
                    /\ c \in clients /\ clients' = clients \ {c}
                    /\ Cardinality(clients') = Cardinality(clients) - 1
                    /\ connClosed'[c]
    /\ rpc[c] = "done"
         => /\ nread'[c] = nread[c]
            /\ ~bc'[c].active
            /\ rpc'[c] = "done"
            /\ c \notin clients' /\ connClosed'[c]

C6_LeaveEndsSession == [][C6_Step]_vars

\* c's last frame was a LEAVE, another client holds it, and c is gone.
C6_Witness ==
  \E c \in Clients : \E r \in clients \ {c} :
    /\ rpc[c] = "done" /\ c \notin clients /\ connClosed[c]
    /\ \E i \in 1..Len(Outgoing[r]) :
         /\ Outgoing[r][i].from = c
         /\ Outgoing[r][i].seq = nread[c]
         /\ IsType(Outgoing[r][i].data, MessageTypeLeave)

\* ---- C7: a frame that does not decode leaves the session as it is: the
\* client stays registered, its connection open, nothing is broadcast, and a
\* well-formed frame read after it is broadcast as usual.
C7_Step ==
  \A c \in Clients : \A data \in InFrames :
    /\ (ReadFrameOf(c, data) /\ Decode(data).err)
         => /\ clients' = clients /\ c \in clients
            /\ connClosed' = connClosed /\ ~connClosed[c]
            /\ Outgoing' = Outgoing /\ bc' = bc
            /\ Username' = Username
            /\ rpc'[c] = "read"
    /\ (ReadFrameOf(c, data) /\ ~Decode(data).err /\ badSeen[c])
         => Delivers(c, Entry(data, c, nread'[c]), clients \ {c})

C7_DecodeErrorKeepsSession == [][C7_Step]_vars

\* c's first frame did not decode; its second one did and is in r's queue,
\* and c is still a member with an open connection.
C7_Witness ==
  \E c \in clients : \E r \in clients \ {c} :
    /\ badSeen[c] /\ nread[c] = 2 /\ HasEntry(r, c, 2) /\ ~HasEntry(r, c, 1)
    /\ lastw[r][c] = 0
    /\ ~connClosed[c]

\* ---- C8: a read error or EOF ends that client's session and no other: the
\* loop exits, the client is unregistered and its connection closed, and
\* every other client keeps its membership, username and queue.
C8_Step ==
  \A c \in Clients :
    ReadError(c)
      => /\ rpc'[c] = "done"
         /\ c \notin clients' /\ connClosed'[c]
         /\ \A d \in Clients \ {c} :
              /\ (d \in clients') = (d \in clients)
              /\ Username'[d] = Username[d]
              /\ Outgoing'[d] = Outgoing[d]
              /\ connClosed'[d] = connClosed[d]
              /\ rpc'[d] = rpc[d] /\ wpc'[d] = wpc[d]

C8_ReadErrorTerminal == [][C8_Step]_vars

\* c's loop has ended although the last frame it read was no LEAVE, while d
\* is still a member with its username and a payload in its queue.
C8_Witness ==
  \E c \in Clients : \E d \in clients \ {c} :
    /\ rpc[c] = "done" /\ c \notin clients /\ connClosed[c]
    /\ Username[d] = "x" /\ rpc[d] = "read"
    /\ \E i \in 1..Len(Outgoing[d]) :
         /\ Outgoing[d][i].from = c
         /\ Outgoing[d][i].seq = nread[c]
         /\ ~IsType(Outgoing[d][i].data, MessageTypeLeave)

\* ---- C9: a write error in a client's write loop is terminal for the
\* connection: once the server has nothing left to do but wait for its peers,
\* a client whose write failed is unregistered and its connection closed.
Internal ==
  \E c \in Clients :
    \/ BroadcastStep(c)
    \/ HandleClientReturn(c)
    \/ WriteLoop(c)
    \/ WriteLoopExit(c)

C9_WriteErrorTerminal ==
  \A c \in Clients :
    (wpc[c] = "failed" /\ ~ENABLED Internal) => (c \notin clients /\ connClosed[c])

\* ---- C10: Register(c) raises ClientCount() by exactly one.
C10_RegisterAddsOne ==
  call.op = "Register" => ClientCount = call.before + 1

\* Amended: by one when c was not a member, by nothing when it was.
C10_RegisterAddsOneIfAbsent ==
  call.op = "Register"
    => /\ call.client \in clients
       /\ ClientCount = call.before + (IF call.was THEN 0 ELSE 1)

\* Register of a client that was not a member of a hub that had one already.
C10_Witness ==
  call.op = "Register" /\ ~call.was /\ call.before >= 1 /\ ClientCount = call.before + 1

\* ---- C11: Unregister(c) of a member removes exactly c and lowers
\* ClientCount() by one; Unregister(c) of a client that is no member leaves
\* the membership set and the count as they are; the call never fails.
C11_Step ==
  \A c \in Clients :
    (call'.n = call.n + 1 /\ call'.op = "Unregister" /\ call'.client = c)
      => IF c \in clients
           THEN /\ clients' = clients \ {c}
                /\ Cardinality(clients') = Cardinality(clients) - 1
           ELSE clients' = clients

C11_UnregisterIdempotent ==
  /\ [](\A c \in Clients : (call.n < MaxCalls /\ NoReader) => ENABLED HubUnregister(c))
  /\ [][C11_Step]_vars

\* The last call unregistered a client that was no member, and the members
\* there were are still there.
C11_Witness ==
  /\ call.op = "Unregister" /\ ~call.was
  /\ call.client \notin clients
  /\ ClientCount = call.before /\ ClientCount >= 1

C14_RoundTrip ==
  (codec.pc \in {"encoded", "roundtrip"} /\ codec.m \in ValidMessages)
    => /\ codec.data.wellformed
       /\ codec.pc = "roundtrip"
            => /\ ~codec.out.err
               /\ codec.out.msg = codec.m

\* A JOIN with a sender and a content has gone through Encode and Decode.
C14_Witness ==
  /\ codec.pc = "roundtrip"
  /\ codec.m = [Type |-> MessageTypeJoin, Sender |-> "y", Content |-> "bye"]
  /\ codec.out.msg.Type = MessageTypeJoin

C13_Step ==
  \A c \in Clients : Username[c] # "" => Username'[c] = Username[c]

C13_UsernameFixed == [][C13_Step]_vars

\* The request the connection's peer has sent, as http.ReadRequest reads it.
MuxRequest ==
  [Method |-> Method(mux.stream[1].text), Upgrade |-> mux.stream[2].hdr.Upgrade,
   Connection |-> mux.stream[2].hdr.Connection, Key |-> mux.stream[2].hdr.Key]

\* The eight request-line prefixes.
UpgradePrefixes == {"GET ", "POST", "PUT ", "HEAD", "OPTI", "PATC", "DELE", "CONN"}

\* a is an initial part of b.
IsPrefix(a, b) == Len(a) <= Len(b) /\ a = SubSeq(b, 1, Len(a))

\* ---- C16: once four bytes have been peeked, the connection is taken for an
\* upgrade attempt exactly when they are one of the eight prefixes, and for
\* a raw-stream peer otherwise.
C16_DetectByPrefix ==
  (mux.pc \in {"detected", "served", "open", "done"}
     \/ (mux.pc = "failed" /\ PeekOK))
    => ((mux.proto = protocolHTTP) <=> (mux.stream[1].text \in UpgradePrefixes))

\* ---- C17: when detection or the handshake fails (fewer than four bytes
\* before the peer is gone, no or a malformed request, an upgrade that is
\* refused, a 101 that cannot be written) the connection is closed, no client
\* is registered for it then or later, and the other clients stay as they are.
C17_Step ==
  /\ (mux.pc = "accepted" /\ ~PeekOK) => mux'.pc = "failed"
  /\ (mux.pc = "detected" /\ mux.proto = protocolHTTP
        /\ (Len(mux.stream) < 2 \/ mux.stream[2].hdr.line = "malformed"))
       => mux'.pc = "failed"
  /\ (mux.pc = "detected" /\ mux.proto = protocolHTTP /\ Len(mux.stream) >= 2
        /\ ~isWebSocketUpgrade(MuxRequest))
       => mux'.pc = "failed"
  /\ mux'.pc = "failed"
       => /\ mux'.closed
          /\ mux'.clients = mux.clients
          /\ mux'.delivered = <<>>
  /\ mux.pc = "failed" => mux' = mux

C17_FailureCloses ==
  /\ [](mux.pc = "failed"
          => mux.closed /\ "conn" \notin mux.clients /\ mux.clients = Others)
  /\ [][C17_Step]_vars

\* A GET whose Upgrade header names another protocol has been refused: the
\* connection is closed and only the client that was there is registered.
C17_Witness ==
  /\ mux.pc = "failed" /\ mux.closed
  /\ Len(mux.stream) >= 2 /\ mux.stream[1].text = "GET "
  /\ mux.stream[2].hdr.line = "ok" /\ mux.stream[2].hdr.Upgrade = "h2c"
  /\ mux.clients = Others

\* ---- C18: the 101 response is written and the client registered only for a
\* GET with Upgrade: websocket, a Connection header containing upgrade (both
\* case-insensitive) and a handshake key.
C18_UpgradeOnlyIfValid ==
  /\ mux.kind = "ws" => mux.wrote101
  /\ mux.wrote101
       => /\ MuxRequest.Method = "GET"
          /\ ToLower(MuxRequest.Upgrade) = "websocket"
          /\ ContainsUpgrade(ToLower(MuxRequest.Connection))
          /\ MuxRequest.Key # ""

\* ---- C19: what the connection's Read calls have returned is an initial
\* part of what the peer sent (behind the request headers, for an upgraded
\* connection), and all of it once Read has returned io.EOF.
C19_Expected ==
  IF mux.kind = "ws" THEN SubSeq(mux.stream, 3, Len(mux.stream)) ELSE mux.stream

C19_NoByteLost ==
  mux.pc \in {"open", "done"}
    => /\ IsPrefix(mux.delivered, C19_Expected)
       /\ mux.pc = "done" => mux.delivered = C19_Expected

\* ---- C20: whatever the frames and the buffer sizes, the bytes the Read
\* calls have returned, then the bytes kept for replay, then the payloads
\* still to come are the payloads as sent, byte for byte; once the transport
\* is exhausted the Read calls have returned all of them.
C20_AdapterKeepsBytes ==
  /\ ws.pc \in {"open", "eof"}
       => ws.got \o SubSeq(ws.readBuffer, ws.readBufferPos + 1, Len(ws.readBuffer))
                 \o Flatten(ws.frames)
            = Flatten(ws.sent)
  /\ ws.pc = "eof" => ws.got = Flatten(ws.sent)

\* Two frames, the first longer than the caller's buffer, have been read to
\* the end, some of the bytes from the replay buffer.
C20_Witness ==
  /\ ws.pc = "eof" /\ ws.replayed
  /\ Len(ws.sent) = 2 /\ Len(ws.sent[1]) = MaxFrameLen /\ Len(ws.sent[2]) >= 1
  /\ ws.got = Flatten(ws.sent)

\* ---- C21: raw-stream and upgraded clients of the one port are members of
\* one client set: a TEXT frame a client of either kind sends is put on the
\* queue of every other registered client, of whatever kind.
C21_Step ==
  \A c \in Peers : \A data \in InFrames :
    (UReadFrameOf(c, data) /\ IsType(data, MessageTypeText))
      => \A r \in uclients \ {c} :
           /\ Len(uout'[r]) = Len(uout[r]) + 1
           /\ uout'[r][Len(uout'[r])] = Entry(data, c, unread'[c])

C21_SharedClientSet ==
  /\ [](\A c \in uclients : utype[c] \in {"tcp", "websocket"})
  /\ [][C21_Step]_vars

\* ---- C22: Hub.Stop closes the connection of every client that is a member
\* when it is called and empties the membership set, so ClientCount is 0
\* when it returns.
C22_StopClosesAll ==
  [][stops' = stops + 1 =>
       /\ \A c \in clients : connClosed'[c] /\ closeCalls'[c] = closeCalls[c] + 1
       /\ clients' = {}
       /\ ClientCount' = 0]_vars

\* Stop has closed the connections of two members whose read tasks have not
\* run their own cleanup yet, and the set is empty.
C22_Witness ==
  /\ stops = 1
  /\ ClientCount = 0
  /\ \E c, d \in Clients :
       /\ c # d
       /\ \A e \in {c, d} : rpc[e] = "read" /\ closeCalls[e] = 1 /\ connClosed[e]

C24_StartReturnsAtStop ==
  /\ [](start = "returned" => quit)
  /\ [](start = "failed" => listener = "none" /\ accepted = 0)
  /\ []((stop \in {"wait", "returned"} /\ start = "accept")
          => /\ listener = "closed"
             /\ ENABLED (AcceptFails /\ start' = "returned"))
  /\ [][(quit /\ start' # start) => start' \in {"returned", "failed"}]_vars
  /\ [][stop = "returned" => accepted' = accepted]_vars

\* The listener has accepted a connection, Stop has been called and has
\* returned, and Start has returned.
C24_Witness ==
  /\ accepted >= 1
  /\ stop = "returned"
  /\ start = "returned"
  /\ listener = "closed"

\* The steps the UnifiedServer takes by itself, without a peer sending,
\* connecting or closing: the deferred functions, the writer goroutines,
\* the accept loop seeing the closed listener, and Stop.
UInternal ==
  \/ \E c \in Peers : UCloseOutgoing(c) \/ UFinish(c) \/ UWrite(c) \/ UWriterExit(c)
  \/ UAcceptFails
  \/ UStopListener
  \/ UStopWait

\* ---- C23: after Stop is called, every read task and every write task
\* exits and Stop returns, even if the peers send nothing and do not close
\* their side: once the server has nothing left to do by itself, Stop has
\* returned and no task is left.
C23_StopReleasesTasks ==
  (QuitClosed /\ UAlive /\ ~ENABLED UInternal)
    => /\ ustop = "returned"
       /\ \A c \in Peers : upc[c] \notin HoldsWaitGroup /\ uwpc[c] # "run"

\* UnifiedServer.ClientCount: len(s.clients) under the read lock.
UClientCount == Cardinality(uclients)

\* ---- C25: every accepted connection is registered: when the peers that
\* have connected have not disconnected and the server has nothing left to
\* do by itself, ClientCount is the number of accepted connections, whether
\* or not the peers have sent anything.
C25_AcceptedRegistered ==
  (/\ UAlive
   /\ \A c \in Peers : upc[c] \in {"idle", "peek", "http", "read"}
   /\ ~ENABLED UInternal)
    => UClientCount = uaccepted

\* ---- C27: on a successful upgrade the server has written exactly the lines
\* 'HTTP/1.1 101 Switching Protocols', 'Upgrade: websocket',
\* 'Connection: Upgrade', 'Sec-WebSocket-Accept: <token>' and a blank line,
\* the token being base64(sha1(key + GUID)) for the key the peer sent, and
\* they are all the server has written when the framed connection comes
\* into being and is read.
C27_Token ==
  "base64(sha1(" \o mux.stream[2].hdr.Key \o "258EAFA5-E914-47DA-95CA-C5AB0DC85B11" \o "))"

C27_UpgradeResponse ==
  mux.pc # "idle" =>
    IF mux.kind = "ws"
      THEN mux.written = <<"HTTP/1.1 101 Switching Protocols",
                           "Upgrade: websocket",
                           "Connection: Upgrade",
                           "Sec-WebSocket-Accept: " \o C27_Token,
                           "">>
      ELSE TRUE

\* An upgraded connection whose peer sent a key, with frame bytes read
\* through the framed connection afterwards.
C27_Witness ==
  /\ mux.pc = "open"
  /\ mux.kind = "ws"
  /\ mux.stream[2].hdr.Key = "dGhlIHNhbXBsZSBub25jZQ=="
  /\ mux.written[4] =
       "Sec-WebSocket-Accept: base64(sha1(dGhlIHNhbXBsZSBub25jZQ==258EAFA5-E914-47DA-95CA-C5AB0DC85B11))"
  /\ mux.delivered # <<>>

\* ---- C28: SendMessage, Join and Leave called while the client holds no
\* connection (before Connect, after a failed Connect, after Disconnect)
\* return the 'not connected' error, write to no connection and leave the
\* client's state as it is.
C28_Step ==
  (/\ cl'.calls = cl.calls + 1
   /\ cl'.last.op \in {"SendMessage", "Join", "Leave"}
   /\ cl.conn = 0)
    => /\ cl'.last.err = "not connected to server"
       /\ cl'.writes = cl.writes
       /\ cl' = [cl EXCEPT !.calls = cl'.calls, !.last = cl'.last]

C28_SendNotConnected == [][C28_Step]_vars

\* Leave has returned the error to a client that had connected and has
\* disconnected; nothing was ever written.
C28_Witness ==
  /\ cl.pc = "idle"
  /\ cl.last = [op |-> "Leave", err |-> "not connected to server"]
  /\ cl.dialed = 1
  /\ cl.conn = 0
  /\ cl.writes = [n \in Dials |-> 0]

\* ---- C29: for any sequence of Connect and Disconnect calls IsConnected()
\* is false before the first Connect, true after a successful Connect, and
\* false after every call of Disconnect has returned.
C29_IsConnected ==
  cl.pc = "idle" =>
    /\ cl.dialed = 0 => ~IsConnected
    /\ (cl.last.op = "Connect" /\ cl.last.err = "") => IsConnected
    /\ cl.last.op = "Disconnect" => ~IsConnected

\* ---- C30: Disconnect may be called on a client that never connected and
\* more than once: the done channel is never closed twice, the call never
\* panics, and a Disconnect whose goroutines have all exited returns.
C30_DisconnectTwice ==
  /\ ~cl.panicked
  /\ (cl.pc = "wait" /\ \A n \in Dials : cl.rx[n].pc \in {"none", "done"})
       => ENABLED DisconnectWait

\* ---- C31: a client's outgoing channel is closed only after the client has
\* been removed from the clients map, so no broadcast ever sends on a closed
\* channel (a send on a closed channel panics).
C31_ClosedAfterRemoval ==
  /\ \A c \in Peers : uoutClosed[c] => c \notin uclients
  /\ UAlive

\* ---- C32: the membership set is guarded by a reader/writer lock: several
\* Broadcast calls may iterate it at the same time, but whenever Register or
\* Unregister modifies it no Broadcast is iterating it, before or after the
\* step (the writer is alone, and has released the lock in the same step).
C32_Step ==
  (\/ clients' # clients
   \/ (call'.n = call.n + 1 /\ call'.op \in {"Register", "Unregister"}))
    => /\ \A c \in Clients : ~bc[c].active
       /\ \A c \in Clients : ~bc'[c].active

C32_WriterAlone == [][C32_Step]_vars

\* Two Broadcast calls hold the read lock at the same time, and a Register
\* has gone through before them.
C32_Witness ==
  \E c, d \in Clients :
    /\ c # d
    /\ bc[c].active
    /\ bc[d].active

\* e lies before f in r's channel.
Before(r, e, f) ==
  \E i, j \in 1..Len(Outgoing[r]) :
    i < j /\ Outgoing[r][i] = e /\ Outgoing[r][j] = f

\* ---- C33: no order is guaranteed across different senders: what two
\* recipients hold may be in opposite orders, and whenever it is, the two
\* payloads come from different senders; the payloads of one sender lie in
\* every channel in the order of its Broadcast calls.
C33_OrderOnlyPerSender ==
  \A r1, r2 \in Members :
    \A i, j \in 1..Len(Outgoing[r1]) :
      LET e == Outgoing[r1][i]
          f == Outgoing[r1][j]
      IN i < j =>
           /\ e.from = f.from => e.seq < f.seq
           /\ Before(r2, f, e) => e.from # f.from

\* Two Broadcast calls by two senders have run at the same time and are
\* over; one recipient holds the first sender's payload before the second's,
\* another recipient holds them the other way round.
C33_Witness ==
  \E s1, s2 \in Senders : \E r1, r2 \in Members \ Senders :
    /\ s1 # s2 /\ r1 # r2
    /\ ~bc[s1].active /\ ~bc[s2].active
    /\ \E e, f \in {Outgoing[r1][i] : i \in 1..Len(Outgoing[r1])} :
         /\ e.from = s1 /\ f.from = s2
         /\ Before(r1, e, f)
         /\ Before(r2, f, e)


\* ---- C34: a client's outgoing channel never holds more than its capacity;
\* a step that changes it either appends one payload at the tail, and is then
\* an iteration of a Broadcast of another client that has this client among
\* its recipients, or takes the payload at the head, and is then a step of
\* the client's own write loop in which no read task moves.
QueueGrows(c) ==
  /\ \E s \in Clients \ {c} :
       /\ \/ bc[s].active /\ c \in bc[s].todo
          \/ ~bc[s].active /\ rpc[s] = "read" /\ nread'[s] = nread[s] + 1
       /\ Len(Outgoing'[c]) = Len(Outgoing[c]) + 1
       /\ Outgoing'[c] = Append(Outgoing[c], Outgoing'[c][Len(Outgoing'[c])])
       /\ Outgoing'[c][Len(Outgoing'[c])].from = s
  /\ wpc' = wpc

QueueShrinks(c) ==
  /\ Outgoing[c] # <<>>
  /\ Outgoing'[c] = Tail(Outgoing[c])
  /\ wpc[c] = "run"
  /\ wpc'[c] \in {"run", "failed"}
  /\ \A d \in Clients \ {c} : Outgoing'[d] = Outgoing[d] /\ wpc'[d] = wpc[d]
  /\ bc' = bc /\ rpc' = rpc /\ nread' = nread /\ clients' = clients

C34_Step ==
  \A c \in Clients :
    /\ Len(Outgoing'[c]) <= OutgoingCap
    /\ Outgoing'[c] # Outgoing[c] => QueueGrows(c) \/ QueueShrinks(c)

C34_BoundedQueue == [][C34_Step]_vars

\* A channel is full, a broadcast has passed it by without adding to it, and
\* its client's write loop has taken a payload off it before.
C34_Witness ==
  \E c, s \in Clients :
    /\ c # s
    /\ Len(Outgoing[c]) = OutgoingCap
    /\ lastw[c][s] > 0
    /\ nread[s] > Outgoing[c][Len(Outgoing[c])].seq
    /\ ~bc[s].active


\* ---- C35: a call of Register(c) adds c to the membership set and does
\* nothing else: the other members stay, and no username, outgoing channel or
\* connection changes, no channel is closed and no read loop, write loop or
\* broadcast is started or moved.
C35_Step ==
  (call'.n = call.n + 1 /\ call'.op = "Register")
    => /\ clients' = clients \cup {call'.client}
       /\ UNCHANGED <<Username, Outgoing, chanClosed, connClosed, closeCalls>>
       /\ UNCHANGED <<rpc, wpc, bc, nread, lastw, accepted>>

C35_RegisterOnlyAdds == [][C35_Step]_vars

\* Register has just added a client while another member has payloads waiting
\* in its channel.
C35_Witness ==
  /\ call.op = "Register"
  /\ ~call.was
  /\ call.client \in clients
  /\ \E d \in clients \ {call.client} : Outgoing[d] # <<>>


\* ---- C36: whenever a client's read loop has ended, its handler removes the
\* client from the membership set, closes the connection and returns, also
\* when the writer goroutine has exited on a write error before: once the
\* server has nothing left to do by itself, no handler is left in its
\* deferred functions.
C36_HandlerReturns ==
  (UAlive /\ ~ENABLED UInternal)
    => \A c \in Peers :
         upc[c] \notin {"return", "wait"}


\* ---- C37: once Stop has returned, the listener registers no client and
\* starts no read task and no write task, also for a connection that Accept
\* had returned while Stop ran.
C37_Step ==
  stop = "returned"
    => /\ clients' \subseteq clients
       /\ \A c \in Clients :
            /\ rpc[c] = "idle" => rpc'[c] = "idle"
            /\ wpc[c] = "idle" => wpc'[c] = "idle"

C37_NothingAfterStop == [][C37_Step]_vars


\* The steps the client takes by itself, without the server sending or
\* closing and without the application calling or receiving: Disconnect's
\* close of done and its wait, and the receive goroutines' steps other than a
\* Read that is waiting on an open connection.
ClientInternal ==
  \/ DisconnectCloseDone
  \/ DisconnectWait
  \/ \E n \in Dials : ReceiveSelect(n) \/ ReceiveDeliver(n)
  \/ \E n \in Dials : cl.rx[n].pc = "read" /\ cl.sock[cl.rx[n].conn] # "open"
                      /\ ReceiveRead(n)

\* ---- C38: Disconnect always terminates: in a process that has not
\* panicked, a Disconnect under way is never left with nothing the client can
\* do by itself, whether a receive goroutine is waiting to hand on a message
\* or is blocked in a Read.
C38_DisconnectTerminates ==
  (cl.pc \in {"close", "wait"} /\ ~cl.panicked) => ENABLED ClientInternal


\* ---- C39: the hub is deadlock-free.  A Broadcast, which holds the read
\* lock, can take its next step whatever the channels hold, and every step
\* leaves it fewer members to visit, so it releases the lock; a read task at
\* its return, which waits for the write lock, can take it whenever no
\* Broadcast holds the read lock; and when no task of the hub can move, none
\* is holding or waiting for the lock.
HubTasks ==
  \E c \in Clients : BroadcastStep(c) \/ HandleClientReturn(c)

C39_State ==
  /\ \A c \in Clients :
       /\ bc[c].active => bc[c].todo # {} /\ ENABLED BroadcastStep(c)
       /\ (rpc[c] = "return" /\ NoReader) => ENABLED HandleClientReturn(c)
  /\ ~ENABLED HubTasks
       => \A c \in Clients : ~bc[c].active /\ rpc[c] # "return"

C39_Step ==
  \A c \in Clients :
    (bc[c].active /\ bc'[c] # bc[c])
      => \/ ~bc'[c].active
         \/ /\ bc'[c].todo \subseteq bc[c].todo
            /\ bc'[c].todo # bc[c].todo

====
